---- MODULE Spec2Model ----
(***************************************************************************)
(* A model of python_magnetunits: the FieldRegistry multi-key index        *)
(* (registry.py), Field construction with its field_type check (field.py,  *)
(* field_types.py) and the FieldDefinition loader (format_definition.py).  *)
(***************************************************************************)
EXTENDS Integers, Sequences, FiniteSets, TLC

VARIABLES
    fields,      \* FieldRegistry._fields    : name   -> Field
    by_symbol,   \* FieldRegistry._by_symbol : symbol -> Field
    by_alias,    \* FieldRegistry._by_alias  : alias  -> sequence of Field
    ret,         \* the last registry call and what it returned
    history,     \* ghost: the fields registered and not since removed, oldest first
    nops,        \* ghost: number of register/remove steps taken so far
    made,        \* the last Field construction call and its outcome
    fmt,         \* the FormatDefinition under construction, then as built
    ureg,        \* field.py's module globals: _global_ureg and what ran on it
    by_category, \* the raise-on-duplicate variant's _by_category : category -> sequence of Field
    heap         \* the FieldRegistry instances alive and the dict objects they hold

regvars == <<fields, by_symbol, by_alias, ret, history, nops>>
othervars == <<fmt, ureg, by_category, heap>>
vars == <<fields, by_symbol, by_alias, ret, history, nops, made, fmt, ureg, by_category,
          heap>>

(***************************************************************************)
(* Bounds and input sets                                                   *)
(***************************************************************************)
\* Number of single-field registrations and removals in one run.
MaxOps == 4
\* Field names, symbols and alias lists of the fields handed to the registry.
\* "a" is at once a possible name, symbol and alias.
Names == {"a", "b", "c"}
Symbols == {"a", "s"}
AliasLists == {<<>>, <<"a", "k">>}
Identifiers == {"a", "b", "c", "s", "k"}

\* Python's None where a Field is expected.
None == [name |-> "<None>", symbol |-> "<None>", aliases |-> <<>>]

\* The Field objects given to the registry (the registry reads only these
\* three attributes of a Field).
FieldPool == [name : Names, symbol : Symbols, aliases : AliasLists]

(***************************************************************************)
(* dict helpers                                                            *)
(***************************************************************************)
EmptyDict == [k \in {} |-> None]
Put(d, k, v) == [x \in DOMAIN d \cup {k} |-> IF x = k THEN v ELSE d[x]]
Del(d, k) == [x \in DOMAIN d \ {k} |-> d[x]]
Values(d) == {d[k] : k \in DOMAIN d}
Elems(s) == {s[i] : i \in 1..Len(s)}

(***************************************************************************)
(* FieldRegistry (registry.py)                                             *)
(***************************************************************************)
\* A registry value: the three dicts of one FieldRegistry instance.
Registry(f, s, a) == [fields |-> f, by_symbol |-> s, by_alias |-> a]

\* FieldRegistry.__init__
NewRegistry == Registry(EmptyDict, EmptyDict, EmptyDict)

\* register, lines 60-63: for alias in field.aliases: bucket.append(field)
RECURSIVE AppendAliases(_, _, _)
AppendAliases(buckets, aliases, field) ==
    IF aliases = <<>> THEN buckets
    ELSE LET alias == Head(aliases)
             bucket == IF alias \in DOMAIN buckets THEN buckets[alias] ELSE <<>>
         IN AppendAliases(Put(buckets, alias, Append(bucket, field)),
                          Tail(aliases), field)

\* A register that keeps the stored field when the name is already taken.
register_keep(R, field) ==
    Registry(IF field.name \in DOMAIN R.fields THEN R.fields
             ELSE Put(R.fields, field.name, field),
             Put(R.by_symbol, field.symbol, field),
             AppendAliases(R.by_alias, field.aliases, field))

\* FieldRegistry.register
register(R, field) ==
    Registry(Put(R.fields, field.name, field),
             Put(R.by_symbol, field.symbol, field),
             AppendAliases(R.by_alias, field.aliases, field))

\* A get that tries the symbol index before the primary map.
get_symbol_first(R, identifier) ==
    IF identifier \in DOMAIN R.by_symbol THEN R.by_symbol[identifier]
    ELSE IF identifier \in DOMAIN R.fields THEN R.fields[identifier]
    ELSE IF identifier \in DOMAIN R.by_alias /\ Len(R.by_alias[identifier]) = 1
         THEN R.by_alias[identifier][1]
    ELSE None

\* FieldRegistry.get
get(R, identifier) ==
    IF identifier \in DOMAIN R.fields THEN R.fields[identifier]
    ELSE IF identifier \in DOMAIN R.by_symbol THEN R.by_symbol[identifier]
    ELSE IF identifier \in DOMAIN R.by_alias /\ Len(R.by_alias[identifier]) = 1
         THEN R.by_alias[identifier][1]
    ELSE None

\* FieldRegistry.has_field / __contains__
has_field(R, identifier) == get(R, identifier) # None

\* FieldRegistry.__len__
len(R) == Cardinality(DOMAIN R.fields)

\* FieldRegistry.bulk_register
RECURSIVE bulk_register(_, _)
bulk_register(R, fs) ==
    IF fs = <<>> THEN R
    ELSE bulk_register(register(R, Head(fs)), Tail(fs))

\* remove, lines 182-184: [f for f in bucket if f.name != field_name]
RECURSIVE FilterName(_, _)
FilterName(bucket, field_name) ==
    IF bucket = <<>> THEN <<>>
    ELSE IF Head(bucket).name # field_name
         THEN <<Head(bucket)>> \o FilterName(Tail(bucket), field_name)
         ELSE FilterName(Tail(bucket), field_name)

\* remove, lines 180-186: the loop over the removed field's aliases
RECURSIVE PurgeAliases(_, _, _)
PurgeAliases(buckets, aliases, field_name) ==
    IF aliases = <<>> THEN buckets
    ELSE LET alias == Head(aliases)
             kept == FilterName(buckets[alias], field_name)
         IN IF alias \notin DOMAIN buckets
            THEN PurgeAliases(buckets, Tail(aliases), field_name)
            ELSE IF kept = <<>>
            THEN PurgeAliases(Del(buckets, alias), Tail(aliases), field_name)
            ELSE PurgeAliases(Put(buckets, alias, kept), Tail(aliases), field_name)

\* A remove that reports success whether or not the name was registered.
remove_always_true(R, field_name) ==
    IF field_name \notin DOMAIN R.fields
    THEN [reg |-> R, result |-> TRUE, field |-> None]
    ELSE LET field == R.fields[field_name]
         IN [reg |-> Registry(Del(R.fields, field_name),
                              Del(R.by_symbol, field.symbol),
                              PurgeAliases(R.by_alias, field.aliases, field_name)),
             result |-> TRUE, field |-> field]

\* A remove that leaves an emptied alias bucket in the alias index.
remove_keep_bucket(R, field_name) ==
    IF field_name \notin DOMAIN R.fields
    THEN [reg |-> R, result |-> FALSE, field |-> None]
    ELSE LET field == R.fields[field_name]
             purged == PurgeAliases(R.by_alias, field.aliases, field_name)
         IN [reg |-> Registry(Del(R.fields, field_name),
                              Del(R.by_symbol, field.symbol),
                              [a \in DOMAIN R.by_alias |->
                                  IF a \in DOMAIN purged THEN purged[a] ELSE <<>>]),
             result |-> TRUE, field |-> field]

\* FieldRegistry.remove: the registry afterwards, the returned bool and the
\* field that was taken out of the primary map (None when absent).
remove(R, field_name) ==
    IF field_name \notin DOMAIN R.fields
    THEN [reg |-> R, result |-> FALSE, field |-> None]
    ELSE LET field == R.fields[field_name]
         IN [reg |-> Registry(Del(R.fields, field_name),
                              IF field.symbol \in DOMAIN R.by_symbol
                              THEN Del(R.by_symbol, field.symbol)
                              ELSE R.by_symbol,
                              PurgeAliases(R.by_alias, field.aliases, field_name)),
             result |-> TRUE, field |-> field]

(***************************************************************************)
(* The unit system (pint's UnitRegistry, set up in field.py)               *)
(***************************************************************************)
\* A unit argument is either a Python str or a pint Unit object.
Str(s) == [kind |-> "str", v |-> s]
Unit(n) == [kind |-> "unit", v |-> n]
isinstance_str(u) == u.kind = "str"

\* Python's None where a str, a FieldType or a Unit is expected.
NoneStr == "<None>"
NoneUnit == [kind |-> "none", v |-> "<None>"]
Undefined == Unit("<undefined>")

\* Dimensionality of the units the registry knows, as exponents of
\* <<length, mass, time, current, temperature>>.
PintDimensionality ==
    ("second" :> <<0, 0, 1, 0, 0>>) @@
    ("tesla" :> <<0, 1, -2, -1, 0>>) @@
    ("volt/meter" :> <<1, 1, -3, -1, 0>>) @@
    ("ampere" :> <<0, 0, 0, 1, 0>>) @@
    ("ampere/meter**2" :> <<-2, 0, 0, 1, 0>>) @@
    ("volt" :> <<2, 1, -3, -1, 0>>) @@
    ("ohm" :> <<2, 1, -3, -2, 0>>) @@
    ("henry" :> <<2, 1, -2, -2, 0>>) @@
    ("ohm*meter" :> <<3, 1, -3, -2, 0>>) @@
    ("siemens/meter" :> <<-3, -1, 3, 2, 0>>) @@
    ("dimensionless" :> <<0, 0, 0, 0, 0>>) @@
    ("watt" :> <<2, 1, -3, 0, 0>>) @@
    ("var" :> <<2, 1, -3, 0, 0>>) @@
    ("kelvin" :> <<0, 0, 0, 0, 1>>) @@
    ("watt/meter**2" :> <<0, 1, -3, 0, 0>>) @@
    ("watt/(meter*kelvin)" :> <<1, 1, -3, 0, -1>>) @@
    ("watt/(meter**2*kelvin)" :> <<0, 1, -3, 0, -1>>) @@
    ("joule/(kilogram*kelvin)" :> <<2, 0, -2, 0, -1>>) @@
    ("1/kelvin" :> <<0, 0, 0, 0, -1>>) @@
    ("meter**2/second" :> <<2, 0, -1, 0, 0>>) @@
    ("pascal" :> <<-1, 1, -2, 0, 0>>) @@
    ("meter**3/second" :> <<3, 0, -1, 0, 0>>) @@
    ("meter/second" :> <<1, 0, -1, 0, 0>>) @@
    ("pascal*second" :> <<-1, 1, -1, 0, 0>>) @@
    ("newton" :> <<1, 1, -2, 0, 0>>) @@
    ("kilogram/meter**3" :> <<-3, 1, 0, 0, 0>>) @@
    ("radian/second" :> <<0, 0, -1, 0, 0>>) @@
    ("percent" :> <<0, 0, 0, 0, 0>>) @@
    ("meter" :> <<1, 0, 0, 0, 0>>) @@
    ("meter**2" :> <<2, 0, 0, 0, 0>>) @@
    ("meter**3" :> <<3, 0, 0, 0, 0>>) @@
    ("millitesla" :> <<0, 1, -2, -1, 0>>) @@
    ("Gauss" :> <<0, 1, -2, -1, 0>>) @@
    ("millimeter" :> <<1, 0, 0, 0, 0>>) @@
    ("degC" :> <<0, 0, 0, 0, 1>>) @@
    ("degF" :> <<0, 0, 0, 0, 1>>) @@
    ("megawatt" :> <<2, 1, -3, 0, 0>>) @@
    ("megavar" :> <<2, 1, -3, 0, 0>>) @@
    ("bar" :> <<-1, 1, -2, 0, 0>>) @@
    ("megapascal" :> <<-1, 1, -2, 0, 0>>) @@
    ("psi" :> <<-1, 1, -2, 0, 0>>) @@
    ("meter**3/hour" :> <<3, 0, -1, 0, 0>>) @@
    ("liter/minute" :> <<3, 0, -1, 0, 0>>) @@
    ("revolution/minute" :> <<0, 0, -1, 0, 0>>)

\* Other spellings the unit registry resolves to a unit of the table.
PintSynonyms ==
    ("T" :> "tesla") @@ ("A" :> "ampere") @@ ("V" :> "volt") @@
    ("W" :> "watt") @@ ("MW" :> "megawatt") @@ ("Pa" :> "pascal") @@
    ("MPa" :> "megapascal") @@ ("celsius" :> "degC") @@
    ("fahrenheit" :> "degF")

\* ureg.Unit(s) and ureg(s): the unit a string names, Undefined when the
\* registry raises UndefinedUnitError.
ParseUnit(s) ==
    IF s \in DOMAIN PintDimensionality THEN Unit(s)
    ELSE IF s \in DOMAIN PintSynonyms THEN Unit(PintSynonyms[s])
    ELSE Undefined

Dimensionality(u) == PintDimensionality[u.v]

\* ureg.Quantity(1, u).to(v) succeeds: pint raises DimensionalityError
\* exactly when the dimensionalities differ.
Converts(u, v) == Dimensionality(u) = Dimensionality(v)

(***************************************************************************)
(* FieldType (field_types.py)                                              *)
(***************************************************************************)
\* The enum members, by value.
FieldTypes ==
    {"time",
     "magnetic_field",
     "electric_field",
     "current",
     "current_density",
     "voltage",
     "resistance",
     "inductance",
     "electrical_resistivity",
     "electrical_conductivity",
     "relative_permittivity",
     "relative_permeability",
     "magnetic_susceptibility",
     "power",
     "reactive_power",
     "temperature",
     "heat_flux",
     "thermal_conductivity",
     "heat_transfer_coefficient",
     "specific_heat",
     "thermal_expansion",
     "thermal_diffusivity",
     "pressure",
     "flow_rate",
     "velocity",
     "dynamic_viscosity",
     "kinematic_viscosity",
     "force",
     "stress",
     "strain",
     "density",
     "young_modulus",
     "poisson_ratio",
     "rotation_speed",
     "percentage",
     "coordinate",
     "length",
     "area",
     "volume",
     "index"}

FieldTypeName ==
    [time |-> "TIME",
     magnetic_field |-> "MAGNETIC_FIELD",
     electric_field |-> "ELECTRIC_FIELD",
     current |-> "CURRENT",
     current_density |-> "CURRENT_DENSITY",
     voltage |-> "VOLTAGE",
     resistance |-> "RESISTANCE",
     inductance |-> "INDUCTANCE",
     electrical_resistivity |-> "ELECTRICAL_RESISTIVITY",
     electrical_conductivity |-> "ELECTRICAL_CONDUCTIVITY",
     relative_permittivity |-> "RELATIVE_PERMITTIVITY",
     relative_permeability |-> "RELATIVE_PERMEABILITY",
     magnetic_susceptibility |-> "MAGNETIC_SUSCEPTIBILITY",
     power |-> "POWER",
     reactive_power |-> "REACTIVE_POWER",
     temperature |-> "TEMPERATURE",
     heat_flux |-> "HEAT_FLUX",
     thermal_conductivity |-> "THERMAL_CONDUCTIVITY",
     heat_transfer_coefficient |-> "HEAT_TRANSFER_COEFFICIENT",
     specific_heat |-> "SPECIFIC_HEAT",
     thermal_expansion |-> "THERMAL_EXPANSION",
     thermal_diffusivity |-> "THERMAL_DIFFUSIVITY",
     pressure |-> "PRESSURE",
     flow_rate |-> "FLOW_RATE",
     velocity |-> "VELOCITY",
     dynamic_viscosity |-> "DYNAMIC_VISCOSITY",
     kinematic_viscosity |-> "KINEMATIC_VISCOSITY",
     force |-> "FORCE",
     stress |-> "STRESS",
     strain |-> "STRAIN",
     density |-> "DENSITY",
     young_modulus |-> "YOUNG_MODULUS",
     poisson_ratio |-> "POISSON_RATIO",
     rotation_speed |-> "ROTATION_SPEED",
     percentage |-> "PERCENTAGE",
     coordinate |-> "COORDINATE",
     length |-> "LENGTH",
     area |-> "AREA",
     volume |-> "VOLUME",
     index |-> "INDEX"]

FIELD_TYPE_UNITS ==
    [time |-> "second",
     magnetic_field |-> "tesla",
     electric_field |-> "volt/meter",
     current |-> "ampere",
     current_density |-> "ampere/meter**2",
     voltage |-> "volt",
     resistance |-> "ohm",
     inductance |-> "henry",
     electrical_resistivity |-> "ohm*meter",
     electrical_conductivity |-> "siemens/meter",
     relative_permittivity |-> "dimensionless",
     relative_permeability |-> "dimensionless",
     magnetic_susceptibility |-> "dimensionless",
     power |-> "watt",
     reactive_power |-> "var",
     temperature |-> "kelvin",
     heat_flux |-> "watt/meter**2",
     thermal_conductivity |-> "watt/(meter*kelvin)",
     heat_transfer_coefficient |-> "watt/(meter**2*kelvin)",
     specific_heat |-> "joule/(kilogram*kelvin)",
     thermal_expansion |-> "1/kelvin",
     thermal_diffusivity |-> "meter**2/second",
     pressure |-> "pascal",
     flow_rate |-> "meter**3/second",
     velocity |-> "meter/second",
     dynamic_viscosity |-> "pascal*second",
     kinematic_viscosity |-> "meter**2/second",
     force |-> "newton",
     stress |-> "pascal",
     strain |-> "dimensionless",
     density |-> "kilogram/meter**3",
     young_modulus |-> "pascal",
     poisson_ratio |-> "dimensionless",
     rotation_speed |-> "radian/second",
     percentage |-> "percent",
     coordinate |-> "meter",
     length |-> "meter",
     area |-> "meter**2",
     volume |-> "meter**3",
     index |-> "dimensionless"]

FIELD_TYPE_SYMBOLS ==
    [time |-> "t",
     magnetic_field |-> "B",
     electric_field |-> "E",
     current |-> "I",
     current_density |-> "J",
     voltage |-> "U",
     resistance |-> "R",
     inductance |-> "L",
     electrical_resistivity |-> "rho_e",
     electrical_conductivity |-> "sigma",
     relative_permittivity |-> "epsilon_r",
     relative_permeability |-> "mu_r",
     magnetic_susceptibility |-> "chi",
     power |-> "P",
     reactive_power |-> "Q",
     temperature |-> "T",
     heat_flux |-> "q",
     thermal_conductivity |-> "k",
     heat_transfer_coefficient |-> "h",
     specific_heat |-> "c_p",
     thermal_expansion |-> "alpha",
     thermal_diffusivity |-> "alpha_th",
     pressure |-> "P",
     flow_rate |-> "Q",
     velocity |-> "v",
     dynamic_viscosity |-> "mu",
     kinematic_viscosity |-> "nu",
     force |-> "F",
     stress |-> "sigma",
     strain |-> "epsilon",
     density |-> "rho",
     young_modulus |-> "E",
     poisson_ratio |-> "nu",
     rotation_speed |-> "omega",
     percentage |-> "%",
     coordinate |-> "x",
     length |-> "L",
     area |-> "A",
     volume |-> "V",
     index |-> "i"]

FIELD_TYPE_LATEX ==
    [time |-> "$t$",
     magnetic_field |-> "$B$",
     electric_field |-> "$E$",
     current |-> "$I$",
     current_density |-> "$J$",
     voltage |-> "$U$",
     resistance |-> "$R$",
     inductance |-> "$L$",
     electrical_resistivity |-> "$\\rho_e$",
     electrical_conductivity |-> "$\\sigma$",
     relative_permittivity |-> "$\\varepsilon_r$",
     relative_permeability |-> "$\\mu_r$",
     magnetic_susceptibility |-> "$\\chi$",
     power |-> "$P$",
     reactive_power |-> "$Q$",
     temperature |-> "$T$",
     heat_flux |-> "$q$",
     thermal_conductivity |-> "$k$",
     heat_transfer_coefficient |-> "$h$",
     specific_heat |-> "$c_p$",
     thermal_expansion |-> "$\\alpha$",
     thermal_diffusivity |-> "$\\alpha_{th}$",
     pressure |-> "$P$",
     flow_rate |-> "$Q$",
     velocity |-> "$v$",
     dynamic_viscosity |-> "$\\mu$",
     kinematic_viscosity |-> "$\\nu$",
     force |-> "$F$",
     stress |-> "$\\sigma$",
     strain |-> "$\\varepsilon$",
     density |-> "$\\rho$",
     young_modulus |-> "$E$",
     poisson_ratio |-> "$\\nu$",
     rotation_speed |-> "$\\omega$",
     percentage |-> "$\\%$",
     coordinate |-> "$x$",
     length |-> "$L$",
     area |-> "$A$",
     volume |-> "$V$",
     index |-> "$i$"]

\* Greek letters of the source symbols are spelled out in FIELD_TYPE_SYMBOLS.

\* FieldType.default_unit / default_symbol / latex_symbol
default_unit(ft) == Unit(FIELD_TYPE_UNITS[ft])
default_symbol(ft) == FIELD_TYPE_SYMBOLS[ft]
latex_symbol(ft) == FIELD_TYPE_LATEX[ft]

\* An is_compatible that accepts every unit the registry can resolve.
is_compatible_any(ft, unit) ==
    LET u == IF isinstance_str(unit) THEN ParseUnit(unit.v) ELSE unit
    IN u # Undefined

\* FieldType.is_compatible: any exception of the try block gives False.
is_compatible(ft, unit) ==
    LET u == IF isinstance_str(unit) THEN ParseUnit(unit.v) ELSE unit
    IN IF u = Undefined THEN FALSE
       ELSE Converts(u, default_unit(ft))

(***************************************************************************)
(* Field (field.py)                                                        *)
(***************************************************************************)
\* What a constructor call gives: a Field, or the exception it raised, and
\* the number of warnings emitted on the way.
Built(f, w) == [ok |-> TRUE, field |-> f, error |-> NoneStr, warnings |-> w]
Raised(e, w) == [ok |-> FALSE, field |-> None, error |-> e, warnings |-> w]

\* A constructor that skips the field_type check of __post_init__.
NewField_unchecked(name, symbol, unit, field_type, latex, aliases) ==
    LET u == IF isinstance_str(unit) THEN ParseUnit(unit.v) ELSE unit
    IN IF u = Undefined THEN Raised("UndefinedUnitError", 0)
       ELSE Built([name |-> name, symbol |-> symbol, unit |-> u,
                   field_type |-> field_type,
                   latex_symbol |-> IF latex = NoneStr THEN symbol ELSE latex,
                   aliases |-> aliases], 0)

\* Field(...) with __post_init__
NewField(name, symbol, unit, field_type, latex, aliases) ==
    LET u == IF isinstance_str(unit) THEN ParseUnit(unit.v) ELSE unit
    IN IF u = Undefined THEN Raised("UndefinedUnitError", 0)
       ELSE IF field_type # NoneStr /\ ~is_compatible(field_type, u)
       THEN Raised("ValueError", 0)
       ELSE Built([name |-> name, symbol |-> symbol, unit |-> u,
                   field_type |-> field_type,
                   latex_symbol |-> IF latex = NoneStr THEN symbol ELSE latex,
                   aliases |-> aliases], 0)

\* x or y, for an optional str: None and the empty string are falsy
Or(x, y) == IF x = NoneStr \/ x = "" THEN y ELSE x

\* A from_field_type that leaves latex_symbol to the constructor, which
\* then copies the symbol.
from_field_type_latex_unset(field_type, name, symbol, unit, latex) ==
    NewField(Or(name, FieldTypeName[field_type]),
             Or(symbol, default_symbol(field_type)),
             IF unit = NoneUnit THEN default_unit(field_type) ELSE unit,
             field_type,
             latex,
             <<>>)

\* Field.from_field_type
from_field_type(field_type, name, symbol, unit, latex) ==
    NewField(Or(name, FieldTypeName[field_type]),
             Or(symbol, default_symbol(field_type)),
             IF unit = NoneUnit THEN default_unit(field_type) ELSE unit,
             field_type,
             Or(latex, latex_symbol(field_type)),
             <<>>)

(***************************************************************************)
(* FieldDefinition (formats/format_definition.py)                          *)
(***************************************************************************)
\* The static unit alias table.
UNIT_ALIASES ==
    ("celsius" :> "degC") @@
    ("fahrenheit" :> "degF") @@
    ("kelvin" :> "kelvin") @@
    ("bar" :> "bar") @@
    ("pascal" :> "pascal") @@
    ("Pa" :> "pascal") @@
    ("MPa" :> "megapascal") @@
    ("psi" :> "psi") @@
    ("liter/minute" :> "liter/minute") @@
    ("l/min" :> "liter/minute") @@
    ("m3/h" :> "meter**3/hour") @@
    ("meter**3/hour" :> "meter**3/hour") @@
    ("megawatt" :> "megawatt") @@
    ("MW" :> "megawatt") @@
    ("watt" :> "watt") @@
    ("W" :> "watt") @@
    ("megavar" :> "megavar") @@
    ("Mvar" :> "megavar") @@
    ("ampere" :> "ampere") @@
    ("A" :> "ampere") @@
    ("volt" :> "volt") @@
    ("V" :> "volt") @@
    ("tesla" :> "tesla") @@
    ("T" :> "tesla") @@
    ("rpm" :> "revolution/minute") @@
    ("dimensionless" :> "dimensionless") @@
    ("percent" :> "percent") @@
    ("%" :> "percent")

\* A normalize_unit that maps a table value back to another key of that value.
normalize_unit_abbreviate(unit_str) ==
    LET full == IF unit_str \in DOMAIN UNIT_ALIASES THEN UNIT_ALIASES[unit_str]
                ELSE unit_str
        keys == {k \in DOMAIN UNIT_ALIASES : UNIT_ALIASES[k] = unit_str /\ k # unit_str}
    IN IF keys # {} THEN CHOOSE k \in keys : TRUE ELSE full

normalize_unit(unit_str) ==
    IF unit_str \in DOMAIN UNIT_ALIASES THEN UNIT_ALIASES[unit_str] ELSE unit_str

\* get_field_type: FieldType(value), None on ValueError
get_field_type(field_type_str) ==
    IF field_type_str \in FieldTypes THEN field_type_str ELSE NoneStr

FieldDefinition(name, field_type, unit, symbol, latex, aliases) ==
    [name |-> name, field_type |-> field_type, unit |-> unit, symbol |-> symbol,
     latex_symbol |-> latex, aliases |-> aliases]

\* A to_field that hands the declared type to the constructor unchecked.
to_field_strict(defn) ==
    NewField(defn.name, Or(defn.symbol, defn.name), Str(normalize_unit(defn.unit)),
             IF defn.field_type # NoneStr THEN get_field_type(defn.field_type)
             ELSE NoneStr,
             defn.latex_symbol, defn.aliases)

\* FieldDefinition.to_field
to_field(defn) ==
    LET ftype == IF defn.field_type # NoneStr THEN get_field_type(defn.field_type)
                 ELSE NoneStr
        unit == Str(normalize_unit(defn.unit))
        symbol == Or(defn.symbol, defn.name)
        warned == ftype # NoneStr /\ ~is_compatible(ftype, unit)
        r == NewField(defn.name, symbol, unit,
                      IF warned THEN NoneStr ELSE ftype,
                      defn.latex_symbol, defn.aliases)
    IN [r EXCEPT !.warnings = IF warned THEN 1 ELSE 0]

(***************************************************************************)
(* FormatDefinition (formats/format_definition.py)                         *)
(***************************************************************************)
\* No FormatDefinition is being constructed.
NoFormat == [op |-> "none"]

\* FormatDefinition.__init__ before _build_fields: the definitions kept, an
\* empty column map (with the insertion order of its keys) and a new
\* registry; warnings counts the warnings emitted, skipped lists the
\* definitions _build_fields gave up on.
NewFormat(defs) ==
    [op |-> "FormatDefinition", defs |-> defs, columns |-> EmptyDict,
     column_names |-> <<>>, registry |-> NewRegistry, warnings |-> 0,
     skipped |-> <<>>]

\* The body of the loop of a _build_fields that lets the registry drop the
\* name it already holds instead of overwriting it.
build_one_unregistered(F, defn) ==
    LET r == to_field(defn)
    IN IF r.ok
       THEN [F EXCEPT !.columns = Put(@, defn.name, r.field),
                      !.column_names = IF defn.name \in DOMAIN F.columns THEN @
                                       ELSE Append(@, defn.name),
                      !.registry = IF defn.name \in DOMAIN @.fields
                                   THEN Registry(Del(@.fields, defn.name),
                                                 @.by_symbol, @.by_alias)
                                   ELSE register(@, r.field),
                      !.warnings = @ + r.warnings]
       ELSE [F EXCEPT !.warnings = @ + r.warnings + 1,
                      !.skipped = Append(@, defn.name)]

\* _build_fields, lines 247-252: one definition, converted and stored in the
\* column map and the registry, or skipped with a warning when to_field raises.
build_one(F, defn) ==
    LET r == to_field(defn)
    IN IF r.ok
       THEN [F EXCEPT !.columns = Put(@, defn.name, r.field),
                      !.column_names = IF defn.name \in DOMAIN F.columns THEN @
                                       ELSE Append(@, defn.name),
                      !.registry = register(@, r.field),
                      !.warnings = @ + r.warnings]
       ELSE [F EXCEPT !.warnings = @ + r.warnings + 1,
                      !.skipped = Append(@, defn.name)]

\* A _build_fields without the try block: the first definition whose
\* to_field raises ends the loop.
RECURSIVE _build_fields_stop(_, _)
_build_fields_stop(F, defs) ==
    IF defs = <<>> THEN F
    ELSE IF to_field(Head(defs)).ok
         THEN _build_fields_stop(build_one(F, Head(defs)), Tail(defs))
         ELSE build_one(F, Head(defs))

\* FormatDefinition._build_fields
RECURSIVE _build_fields(_, _)
_build_fields(F, defs) ==
    IF defs = <<>> THEN F
    ELSE _build_fields(build_one(F, Head(defs)), Tail(defs))

\* FormatDefinition.get_field
get_field(F, column_name) ==
    IF column_name \in DOMAIN F.columns THEN F.columns[column_name] ELSE None

\* A get_field_by_symbol that answers from the registry's symbol index only.
get_field_by_symbol_index(F, symbol) ==
    IF symbol \in DOMAIN F.registry.by_symbol THEN F.registry.by_symbol[symbol]
    ELSE None

\* FormatDefinition.get_field_by_symbol
get_field_by_symbol(F, symbol) == get(F.registry, symbol)

\* The values of the column map, in the insertion order of its keys.
ColumnValues(F) == [i \in 1..Len(F.column_names) |-> F.columns[F.column_names[i]]]

\* A list_fields_by_type that returns every field of the format.
list_fields_by_type_all(F, field_type) == ColumnValues(F)

\* FormatDefinition.list_fields_by_type
list_fields_by_type(F, field_type) ==
    LET OfType(f) == f.field_type = field_type
    IN SelectSeq(ColumnValues(F), OfType)

\* FormatDefinition.__len__
format_len(F) == Cardinality(DOMAIN F.columns)

(***************************************************************************)
(* The global unit registry (field.py)                                     *)
(***************************************************************************)
\* The module globals when field.py starts to load: _global_ureg = None
\* (instance 0).  created counts the UnitRegistry objects constructed,
\* defined lists the define() calls in order, calls counts the calls of
\* get_global_ureg and returned holds the instances they returned.
ModuleLoad ==
    [instance |-> 0, created |-> 0, defined |-> <<>>, calls |-> 0, returned |-> {}]

CustomUnits == <<"percent", "ppm", "var", "Gauss">>

\* A get_global_ureg that builds a registry on every call.
get_global_ureg_fresh(G) ==
    [instance |-> G.created + 1, created |-> G.created + 1,
     defined |-> G.defined \o CustomUnits, calls |-> G.calls + 1,
     returned |-> G.returned \cup {G.created + 1}]

\* get_global_ureg
get_global_ureg(G) ==
    LET H == IF G.instance = 0
             THEN [G EXCEPT !.instance = G.created + 1, !.created = @ + 1,
                            !.defined = @ \o CustomUnits]
             ELSE G
    IN [H EXCEPT !.calls = @ + 1, !.returned = @ \cup {H.instance}]

\* field.py line 33, run once when the module is imported.
Imported == get_global_ureg(ModuleLoad)

(***************************************************************************)
(* FieldRegistry instances and the dict objects they hold                  *)
(***************************************************************************)
\* A dict object: its entries and its keys in insertion order.
DictObject(map, keys) == [map |-> map, keys |-> keys]

\* The keys of a dict after the keys of added were set, in that order.
RECURSIVE AppendNew(_, _)
AppendNew(keys, added) ==
    IF added = <<>> THEN keys
    ELSE AppendNew(IF Head(added) \in Elems(keys) THEN keys
                   ELSE Append(keys, Head(added)),
                   Tail(added))

\* The dict object d after the item assignments and deletions that leave it
\* with the entries of map; added are the keys assigned, in order.
Stored(d, map, added) ==
    LET Kept(k) == k \in DOMAIN map
    IN DictObject(map, SelectSeq(AppendNew(d.keys, added), Kept))

\* A FieldRegistry() whose three dicts are class attributes: every instance
\* after the first holds the dict objects of the first.
NewInstance_class_level(H, owner) ==
    IF H.registries = <<>>
    THEN [H EXCEPT
            !.dicts = @ \o <<DictObject(EmptyDict, <<>>), DictObject(EmptyDict, <<>>),
                             DictObject(EmptyDict, <<>>)>>,
            !.registries = Append(@, [fields |-> Len(H.dicts) + 1,
                                      by_symbol |-> Len(H.dicts) + 2,
                                      by_alias |-> Len(H.dicts) + 3,
                                      owner |-> owner])]
    ELSE [H EXCEPT
            !.registries = Append(@, [fields |-> H.registries[1].fields,
                                      by_symbol |-> H.registries[1].by_symbol,
                                      by_alias |-> H.registries[1].by_alias,
                                      owner |-> owner])]

\* FieldRegistry(): __init__ binds three dict objects made on the spot, at
\* addresses no other object has.
NewInstance(H, owner) ==
    [H EXCEPT
        !.dicts = @ \o <<DictObject(EmptyDict, <<>>), DictObject(EmptyDict, <<>>),
                         DictObject(EmptyDict, <<>>)>>,
        !.registries = Append(@, [fields |-> Len(H.dicts) + 1,
                                  by_symbol |-> Len(H.dicts) + 2,
                                  by_alias |-> Len(H.dicts) + 3,
                                  owner |-> owner])]

\* The indices instance i reads through its three attributes.
Load(H, i) ==
    Registry(H.dicts[H.registries[i].fields].map,
             H.dicts[H.registries[i].by_symbol].map,
             H.dicts[H.registries[i].by_alias].map)

\* The dict objects of instance i, written in place with the indices of R.
Store(H, i, R, field) ==
    LET self == H.registries[i]
    IN [H EXCEPT
          !.dicts[self.fields] = Stored(@, R.fields, <<field.name>>),
          !.dicts[self.by_symbol] = Stored(@, R.by_symbol, <<field.symbol>>),
          !.dicts[self.by_alias] = Stored(@, R.by_alias, field.aliases)]

\* registry.py line 204: the module creates default_registry when imported.
ModuleRegistries ==
    [NewInstance([dicts |-> <<>>, registries |-> <<>>, steps |-> 0,
                  last |-> [op |-> "import", inst |-> 1]], "module")
        EXCEPT !.steps = 0]

(***************************************************************************)
(* The registry as a state machine                                         *)
(***************************************************************************)
\* The registry held in the state variables.
Reg == Registry(fields, by_symbol, by_alias)

\* ghost bookkeeping for remove: drop every registration of that name
RECURSIVE DropName(_, _)
DropName(h, field_name) ==
    IF h = <<>> THEN <<>>
    ELSE IF Head(h).name = field_name THEN DropName(Tail(h), field_name)
         ELSE <<Head(h)>> \o DropName(Tail(h), field_name)

Call(op, name, field, val) == [op |-> op, name |-> name, field |-> field, val |-> val]

Register(field) ==
    /\ nops < MaxOps
    /\ LET R == register(Reg, field)
       IN /\ fields' = R.fields
          /\ by_symbol' = R.by_symbol
          /\ by_alias' = R.by_alias
    /\ ret' = Call("register", field.name, field, FALSE)
    /\ history' = Append(history, field)
    /\ nops' = nops + 1
    /\ UNCHANGED <<made, othervars>>

BulkRegister(fs) ==
    /\ nops + Len(fs) <= MaxOps
    /\ LET R == bulk_register(Reg, fs)
       IN /\ fields' = R.fields
          /\ by_symbol' = R.by_symbol
          /\ by_alias' = R.by_alias
    /\ ret' = Call("bulk_register", "", None, FALSE)
    /\ history' = history \o fs
    /\ nops' = nops + Len(fs)
    /\ UNCHANGED <<made, othervars>>

Remove(field_name) ==
    /\ nops < MaxOps
    /\ LET r == remove(Reg, field_name)
       IN /\ fields' = r.reg.fields
          /\ by_symbol' = r.reg.by_symbol
          /\ by_alias' = r.reg.by_alias
          /\ ret' = Call("remove", field_name, r.field, r.result)
    /\ history' = DropName(history, field_name)
    /\ nops' = nops + 1
    /\ UNCHANGED <<made, othervars>>

Init ==
    /\ fields = NewRegistry.fields
    /\ by_symbol = NewRegistry.by_symbol
    /\ by_alias = NewRegistry.by_alias
    /\ ret = Call("init", "", None, FALSE)
    /\ history = <<>>
    /\ nops = 0
    /\ made = None
    /\ fmt = NoFormat
    /\ ureg = Imported
    /\ by_category = EmptyDict
    /\ heap = ModuleRegistries

\* The lists handed to bulk_register: every pair of fields named "b", so a
\* batch may hold one field twice or two fields of one name.
BulkLists == {<<f, g>> : f, g \in {x \in FieldPool : x.name = "b"}}

Next ==
    \/ \E field \in FieldPool : Register(field)
    \/ \E fs \in BulkLists : BulkRegister(fs)
    \/ \E field_name \in Names : Remove(field_name)

Spec == Init /\ [][Next]_vars

(***************************************************************************)
(* Field construction as a state machine                                   *)
(***************************************************************************)
\* The unit arguments tried: strings the unit registry resolves, strings it
\* resolves only after normalize_unit ("m3/h"), a string it never resolves,
\* and Unit objects.
UnitStrings ==
    {"tesla", "T", "millitesla", "Gauss", "meter", "millimeter", "kelvin",
     "degC", "celsius", "second", "ampere", "volt/meter", "watt", "MW",
     "pascal", "bar", "dimensionless", "percent", "meter**3/hour", "m3/h",
     "not_a_unit"}
UnitObjects == {Unit("tesla"), Unit("meter"), Unit("kelvin"), Unit("dimensionless")}
UnitArgs == {Str(s) : s \in UnitStrings} \cup UnitObjects

\* The field_type strings a format file may declare.
TypeStrings == FieldTypes \cup {NoneStr, "not_a_type"}

\* The arguments of a call that has not run yet.
Args(field_type, unit, name, symbol, latex) ==
    [op |-> "call", field_type |-> field_type, unit |-> unit, name |-> name,
     symbol |-> symbol, latex |-> latex]

\* A call that has run: its arguments and its outcome.
Made(op, r) ==
    [op |-> op, field_type |-> made.field_type, unit |-> made.unit,
     name |-> made.name, symbol |-> made.symbol, latex |-> made.latex,
     ok |-> r.ok, field |-> r.field, error |-> r.error, warnings |-> r.warnings]

\* Field(name=..., symbol=..., unit=..., field_type=..., latex_symbol=...)
Construct ==
    /\ made.op = "call"
    /\ made.field_type \in FieldTypes \cup {NoneStr}
    /\ made.name # NoneStr /\ made.symbol # NoneStr /\ made.unit # NoneUnit
    /\ made' = Made("Field", NewField(made.name, made.symbol, made.unit,
                                      made.field_type, made.latex, <<>>))
    /\ UNCHANGED <<regvars, othervars>>

\* Field.from_field_type(field_type, name=..., symbol=..., unit=..., latex_symbol=...)
FromFieldType ==
    /\ made.op = "call"
    /\ made.field_type \in FieldTypes
    /\ isinstance_str(made.unit) \/ made.unit = NoneUnit
    /\ made' = Made("from_field_type",
                    from_field_type(made.field_type, made.name, made.symbol,
                                    made.unit, made.latex))
    /\ UNCHANGED <<regvars, othervars>>

\* FieldDefinition(name=..., field_type=..., unit=..., symbol=...).to_field()
ToField ==
    /\ made.op = "call"
    /\ made.name # NoneStr /\ isinstance_str(made.unit)
    /\ made' = Made("to_field",
                    to_field(FieldDefinition(made.name, made.field_type, made.unit.v,
                                             made.symbol, made.latex, <<>>)))
    /\ UNCHANGED <<regvars, othervars>>

\* field_type.is_compatible(unit), for the unit of the call, for the kind's
\* own default_unit and for the string that default_unit was parsed from.
IsCompatible ==
    /\ made.op = "call"
    /\ made.field_type \in FieldTypes
    /\ \E unit \in {made.unit, default_unit(made.field_type),
                     Str(FIELD_TYPE_UNITS[made.field_type])} \ {NoneUnit} :
          made' = [op |-> "is_compatible", field_type |-> made.field_type,
                   unit |-> unit,
                   result |-> is_compatible(made.field_type, unit)]
    /\ UNCHANGED <<regvars, othervars>>

\* Calls of get_global_ureg after the one made when field.py is imported.
MaxCalls == 2

\* get_global_ureg(), called by any code after field.py was imported.
GetGlobalUreg ==
    /\ ureg.calls <= MaxCalls
    /\ ureg' = get_global_ureg(ureg)
    /\ UNCHANGED <<regvars, made, fmt, by_category, heap>>

\* The strings handed to normalize_unit: every key and every value of the
\* alias table, and strings that are neither.
NormalizeInputs ==
    DOMAIN UNIT_ALIASES \cup Values(UNIT_ALIASES) \cup {"some_unknown_unit", "Celsius", ""}

\* normalize_unit(s), and normalize_unit applied to what it returned.
NormalizeUnit ==
    /\ made.op = "normalize"
    /\ made' = [op |-> "normalize_unit", unit |-> made.unit,
                result |-> normalize_unit(made.unit.v),
                again |-> normalize_unit(normalize_unit(made.unit.v))]
    /\ UNCHANGED <<regvars, othervars>>

\* The registry is left empty; the arguments of the call are drawn here.
FieldInit ==
    /\ fields = NewRegistry.fields
    /\ by_symbol = NewRegistry.by_symbol
    /\ by_alias = NewRegistry.by_alias
    /\ ret = Call("init", "", None, FALSE)
    /\ history = <<>>
    /\ nops = 0
    /\ made \in {Args(ft, u, n, s, l) :
                   ft \in TypeStrings, u \in UnitArgs \cup {NoneUnit},
                   n \in {NoneStr, "x", ""}, s \in {NoneStr, "X", ""},
                   l \in {NoneStr, "$X$", ""}}
              \cup {[op |-> "normalize", unit |-> Str(s)] : s \in NormalizeInputs}
    /\ fmt = NoFormat
    /\ ureg = Imported
    /\ by_category = EmptyDict
    /\ heap = ModuleRegistries

FieldNext ==
    \/ Construct \/ FromFieldType \/ ToField \/ IsCompatible \/ GetGlobalUreg
    \/ NormalizeUnit

FieldSpec == FieldInit /\ [][FieldNext]_vars

(***************************************************************************)
(* Properties of FieldRegistry                                             *)
(***************************************************************************)
Max(S) == CHOOSE x \in S : \A y \in S : y <= x

\* What the alias index alone answers for an identifier.
AliasResult(id) ==
    IF id \in DOMAIN by_alias /\ Len(by_alias[id]) = 1 THEN by_alias[id][1] ELSE None

\* The registered fields that list a among their aliases.
Owners(a) == {f \in Values(fields) : a \in Elems(f.aliases)}

\* The names registered and not since removed, and the field last
\* registered under a name or with a symbol, read off the history.
LiveNames == {history[i].name : i \in 1..Len(history)}
LastRegistered(n) == history[Max({i \in 1..Len(history) : history[i].name = n})]
LastWithSymbol(s) ==
    LET at == {i \in 1..Len(history) : history[i].symbol = s}
    IN IF at = {} THEN None ELSE history[Max(at)]

\* C1: get(id) is the primary-map field named id if there is one, otherwise
\* the symbol-index entry for id if there is one, otherwise the alias result:
\* name beats symbol beats alias.
C1_LookupPriority ==
    \A id \in Identifiers :
        LET g == get(Reg, id)
        IN /\ id \in DOMAIN fields => g = fields[id]
           /\ (id \notin DOMAIN fields /\ id \in DOMAIN by_symbol) => g = by_symbol[id]
           /\ (id \notin DOMAIN fields /\ id \notin DOMAIN by_symbol) => g = AliasResult(id)

\* C1 witness: "a" is the name of one registered field, the symbol of a
\* second and an alias of a third, and get("a") is the first.
C1_Witness ==
    /\ "a" \in DOMAIN fields /\ "a" \in DOMAIN by_symbol /\ "a" \in DOMAIN by_alias
    /\ by_symbol["a"].name # "a" /\ by_symbol["a"] \in Values(fields)
    /\ \E f \in Owners("a") : f.name \notin {"a", by_symbol["a"].name}
    /\ get(Reg, "a") = fields["a"]
    /\ get(Reg, "a") # by_symbol["a"]

\* C2: for an identifier a that is neither a registered name nor an indexed
\* symbol, get(a) is f exactly when f is the one and only registered field
\* with alias a, and None when no or several registered fields have it.
C2_UniqueAliasOwner ==
    \A a \in Identifiers :
        (a \notin DOMAIN fields /\ a \notin DOMAIN by_symbol) =>
            get(Reg, a) = IF Cardinality(Owners(a)) = 1
                          THEN CHOOSE f \in Owners(a) : TRUE
                          ELSE None

\* C3: remove(name) deletes the symbol-index entry of the removed field's
\* symbol only when the entry points to the removed field: an entry that
\* points to another, still registered field survives the removal, and
\* get(symbol) still returns that field.
C3_RemoveKeepsOthersSymbol ==
    [][(ret'.op = "remove" /\ ret'.val = TRUE) =>
         LET f == fields[ret'.name]
             s == f.symbol
         IN (s \in DOMAIN by_symbol /\ by_symbol[s] # f
               /\ by_symbol[s] \in Values(fields')) =>
                /\ s \in DOMAIN by_symbol'
                /\ by_symbol'[s] = by_symbol[s]
                /\ s \notin DOMAIN fields' => get(Reg', s) = by_symbol[s]]_vars

\* C4: for every field f in the primary map the symbol index has an entry
\* for f.symbol.
C4_SymbolIndexed ==
    \A n \in DOMAIN fields : fields[n].symbol \in DOMAIN by_symbol

\* C5: for every symbol s of a registered field (s not itself a registered
\* name), get(s) is the field most recently registered with symbol s, and
\* every registered field is reachable through get of its name.
C5_SymbolGivesLatest ==
    /\ \A f \in Values(fields) :
          f.symbol \notin DOMAIN fields => get(Reg, f.symbol) = LastWithSymbol(f.symbol)
    /\ \A n \in DOMAIN fields : get(Reg, n) = fields[n]

\* C6: after remove(name) returned True the removed field is in no alias
\* bucket, and for each alias a it had (a neither a name nor a symbol) get(a)
\* is None when no other registered field has alias a and is the other field
\* when exactly one other registered field has alias a.
C6_RemovePurgesAliases ==
    (ret.op = "remove" /\ ret.val = TRUE) =>
        \A a \in Elems(ret.field.aliases) :
            /\ a \in DOMAIN by_alias => ret.field \notin Elems(by_alias[a])
            /\ (a \notin DOMAIN fields /\ a \notin DOMAIN by_symbol) =>
                  /\ Owners(a) = {} => get(Reg, a) = None
                  /\ Cardinality(Owners(a)) = 1 => get(Reg, a) \in Owners(a)

\* C7: remove(name) for a name that is not in the primary map returns False
\* and leaves the primary map, the symbol index and the alias index as they
\* were, so len(registry) and every get result are unchanged.
C7_RemoveAbsentNoEffect ==
    [][(ret'.op = "remove" /\ ret'.name \notin DOMAIN fields) =>
         /\ ret'.val = FALSE
         /\ fields' = fields /\ by_symbol' = by_symbol /\ by_alias' = by_alias
         /\ len(Reg') = len(Reg)
         /\ \A id \in Identifiers : get(Reg', id) = get(Reg, id)]_vars

\* C7 witness: remove of an absent name has returned False on a registry
\* that holds fields and alias buckets.
C7_Witness ==
    /\ ret.op = "remove" /\ ret.val = FALSE
    /\ ret.name \notin DOMAIN fields
    /\ DOMAIN fields # {} /\ DOMAIN by_alias # {}

\* C8: registering an already registered name replaces the stored field:
\* len(registry) is the number of distinct names registered and not since
\* removed, and get(name) is the field most recently registered under name.
C8_OverwriteByName ==
    /\ len(Reg) = Cardinality(LiveNames)
    /\ \A n \in LiveNames : get(Reg, n) = LastRegistered(n)

\* C8 witness: a name was registered twice with different fields, a second
\* name is registered too, and get(name) is the later field.
C8_Witness ==
    \E i, j \in 1..Len(history) :
        /\ i < j
        /\ history[i].name = history[j].name
        /\ history[i] # history[j]
        /\ LastRegistered(history[j].name) = history[j]
        /\ get(Reg, history[j].name) = history[j]
        /\ len(Reg) = 2

(***************************************************************************)
(* Properties of Field construction and of the loader                      *)
(***************************************************************************)
\* The unit a call was given, resolved; Undefined for a string the unit
\* registry does not know.
GivenUnit == IF isinstance_str(made.unit) THEN ParseUnit(made.unit.v) ELSE made.unit

\* Same dimensionality as the default unit of a field type.
SameDimension(u, ft) == PintDimensionality[u.v] = PintDimensionality[FIELD_TYPE_UNITS[ft]]

\* C9: constructing a Field with a field_type and a unit whose dimension is
\* not that of field_type.default_unit raises ValueError and yields no
\* Field (a unit string the unit registry cannot resolve yields no Field
\* either); every Field the constructor or from_field_type yields with
\* field_type set has a unit of the default unit's dimension.
C9_IncompatibleRaises ==
    /\ (/\ made.op \in {"Field", "from_field_type"}
        /\ made.field_type # NoneStr
        /\ made.unit # NoneUnit
        /\ GivenUnit # Undefined
        /\ ~SameDimension(GivenUnit, made.field_type))
          => (~made.ok /\ made.error = "ValueError" /\ made.field = None)
    /\ (/\ made.op \in {"Field", "from_field_type"}
        /\ made.unit # NoneUnit
        /\ GivenUnit = Undefined)
          => (~made.ok /\ made.field = None)
    /\ (/\ made.op \in {"Field", "from_field_type"}
        /\ made.ok
        /\ made.field.field_type # NoneStr)
          => SameDimension(made.field.unit, made.field.field_type)

\* C9 witness: Field(unit=ureg.meter, field_type=MAGNETIC_FIELD) has raised
\* ValueError.
C9_Witness ==
    /\ made.op = "Field"
    /\ made.field_type = "magnetic_field"
    /\ made.unit = Unit("meter")
    /\ ~made.ok /\ made.error = "ValueError"

\* The normalised unit string of the to_field call, and whether it is a unit
\* of the declared type's dimension.
NormalisedUnit == ParseUnit(normalize_unit(made.unit.v))
DeclaredCompatible ==
    NormalisedUnit # Undefined /\ SameDimension(NormalisedUnit, made.field_type)

C15_WitnessDefault ==
    /\ made.op = "is_compatible"
    /\ made.field_type = "reactive_power"
    /\ made.unit = Unit("var")
    /\ made.result

\* What from_field_type is to yield for one str attribute: the override
\* where one counts as supplied, the taxonomy's value otherwise.
Expected(override, supplied, default) == IF supplied THEN override ELSE default

\* The Field from_field_type is to yield, Supplied telling which str
\* overrides count as supplied.
ExpectedField(Supplied(_)) ==
    [name |-> Expected(made.name, Supplied(made.name), FieldTypeName[made.field_type]),
     symbol |-> Expected(made.symbol, Supplied(made.symbol),
                         default_symbol(made.field_type)),
     unit |-> IF made.unit = NoneUnit THEN default_unit(made.field_type)
              ELSE GivenUnit,
     field_type |-> made.field_type,
     latex_symbol |-> Expected(made.latex, Supplied(made.latex),
                               latex_symbol(made.field_type)),
     aliases |-> <<>>]

\* from_field_type without overrides yields the taxonomy's Field; with
\* overrides and a unit of the kind's dimension it yields ExpectedField; with
\* an override unit of another dimension it raises ValueError.
FromFieldTypeYields(Supplied(_)) ==
    made.op = "from_field_type" =>
        /\ (/\ made.name = NoneStr /\ made.symbol = NoneStr
            /\ made.latex = NoneStr /\ made.unit = NoneUnit)
              => /\ made.ok
                 /\ made.field = [name |-> FieldTypeName[made.field_type],
                                  symbol |-> default_symbol(made.field_type),
                                  unit |-> default_unit(made.field_type),
                                  field_type |-> made.field_type,
                                  latex_symbol |-> latex_symbol(made.field_type),
                                  aliases |-> <<>>]
        /\ (made.unit = NoneUnit
              \/ (GivenUnit # Undefined /\ SameDimension(GivenUnit, made.field_type)))
              => (made.ok /\ made.field = ExpectedField(Supplied))
        /\ (/\ made.unit # NoneUnit
            /\ GivenUnit # Undefined
            /\ ~SameDimension(GivenUnit, made.field_type))
              => (~made.ok /\ made.error = "ValueError")
        /\ (made.unit # NoneUnit /\ GivenUnit = Undefined) => ~made.ok

IsGiven(x) == x # NoneStr
IsGivenNonEmpty(x) == x # NoneStr /\ x # ""

C18_UregCreatedOnce ==
    /\ ureg.created = 1
    /\ ureg.instance = 1
    /\ ureg.defined = <<"percent", "ppm", "var", "Gauss">>
    /\ ureg.returned = {ureg.instance}

\* C18 witness: get_global_ureg has been called twice after the import, the
\* second time after a Field was constructed.
C18_Witness ==
    /\ ureg.calls = 3
    /\ made.op = "Field"

(***************************************************************************)
(* FormatDefinition construction as a state machine                        *)
(***************************************************************************)
\* Longest list of FieldDefinitions handed to FormatDefinition(...).
MaxDefs == 2

\* The FieldDefinitions of a format file: two column names; a declared type
\* with a compatible unit, with an incompatible unit and with a unit string
\* the unit registry cannot resolve, and no declared type; a symbol left
\* out (with or without an alias that is another definition's symbol), a
\* symbol of its own and a symbol that is the other column's name.
ColumnNames == {"c1", "c2"}
TypedUnits ==
    {<<"magnetic_field", "tesla">>, <<"magnetic_field", "kelvin">>,
     <<"magnetic_field", "not_a_unit">>, <<"temperature", "celsius">>,
     <<NoneStr, "tesla">>}
SymbolsAliases ==
    {<<NoneStr, <<>>>>, <<"B", <<>>>>, <<"c2", <<>>>>, <<NoneStr, <<"B">>>>}
DefPool ==
    {FieldDefinition(n, tu[1], tu[2], sa[1], NoneStr, sa[2]) :
        n \in ColumnNames, tu \in TypedUnits, sa \in SymbolsAliases}
DefLists == UNION {[1..n -> DefPool] : n \in 0..MaxDefs}

\* FormatDefinition("fmt", field_definitions=defs): __init__ with _build_fields
NewFormatDefinition ==
    /\ fmt.op = "call"
    /\ fmt' = _build_fields(NewFormat(fmt.defs), fmt.defs)
    /\ UNCHANGED <<regvars, made, ureg, by_category, heap>>

\* The list of definitions of the call is drawn here.
FormatInit ==
    /\ fields = NewRegistry.fields
    /\ by_symbol = NewRegistry.by_symbol
    /\ by_alias = NewRegistry.by_alias
    /\ ret = Call("init", "", None, FALSE)
    /\ history = <<>>
    /\ nops = 0
    /\ made = None
    /\ fmt \in {[op |-> "call", defs |-> ds] : ds \in DefLists}
    /\ ureg = Imported
    /\ by_category = EmptyDict
    /\ heap = ModuleRegistries

FormatNext == NewFormatDefinition

FormatSpec == FormatInit /\ [][FormatNext]_vars

(***************************************************************************)
(* Properties of FormatDefinition                                          *)
(***************************************************************************)
FormatBuilt == fmt.op = "FormatDefinition"

\* The positions of the definitions whose to_field returns a Field.
Converted == {i \in 1..Len(fmt.defs) : to_field(fmt.defs[i]).ok}

\* The names of the definitions whose to_field raises, in list order.
RECURSIVE FailedNames(_)
FailedNames(defs) ==
    IF defs = <<>> THEN <<>>
    ELSE IF to_field(Head(defs)).ok THEN FailedNames(Tail(defs))
         ELSE <<Head(defs).name>> \o FailedNames(Tail(defs))

\* The last converted definition of a column name (0 when there is none).
LastConverted(c) ==
    LET S == {i \in Converted : fmt.defs[i].name = c}
    IN IF S = {} THEN 0 ELSE Max(S)

\* C11: constructing a FormatDefinition runs through the whole list of
\* definitions, whatever it holds; each definition whose to_field raises is
\* skipped with a warning and contributes no Field, and every other
\* definition, before or after it, has its column name in the column map and
\* in the registry.
C11_BuildSkipsFailures ==
    FormatBuilt =>
        /\ Len(fmt.skipped) + Cardinality(Converted) = Len(fmt.defs)
        /\ fmt.skipped = FailedNames(fmt.defs)
        /\ fmt.warnings >= Len(fmt.skipped)
        /\ \A i \in Converted :
              /\ fmt.defs[i].name \in DOMAIN fmt.columns
              /\ fmt.defs[i].name \in DOMAIN fmt.registry.fields
        /\ \A c \in DOMAIN fmt.columns :
              /\ LastConverted(c) # 0
              /\ fmt.columns[c] = to_field(fmt.defs[LastConverted(c)]).field
        /\ DOMAIN fmt.registry.fields \subseteq DOMAIN fmt.columns

\* A list whose first definition raises on an unresolvable unit and whose
\* second definition, of the other column, is built.
C11_Witness ==
    /\ FormatBuilt
    /\ Len(fmt.defs) = 2
    /\ to_field(fmt.defs[1]).error = "UndefinedUnitError"
    /\ to_field(fmt.defs[2]).ok
    /\ fmt.defs[1].name # fmt.defs[2].name
    /\ fmt.skipped = <<fmt.defs[1].name>>
    /\ DOMAIN fmt.columns = {fmt.defs[2].name}

\* For each column, the FieldType its converted definition declares
\* (NoneStr when it declares none or an unknown one).
DeclaredKind ==
    [c \in DOMAIN fmt.columns |-> get_field_type(fmt.defs[LastConverted(c)].field_type)]

\* The columns declared with a recognised type their unit is incompatible with.
DeclaredIncompatible ==
    {c \in DOMAIN fmt.columns :
        /\ DeclaredKind[c] # NoneStr
        /\ ~is_compatible(DeclaredKind[c], fmt.columns[c].unit)}

\* The kinds asked for: the two the definitions declare and two they never do.
KindQueries == {"magnetic_field", "temperature", "pressure", "index"}

\* C12: a field declared with a type its unit is incompatible with is kept:
\* len(format) counts every column that has a converted definition, and
\* list_fields_by_type(kind) lists, once each, exactly the built fields whose
\* declared type is kind and whose unit is compatible with kind.
C12_IncompatibleKeptUnlisted ==
    FormatBuilt =>
        LET declared == DeclaredKind
            ColumnsOfKind(kind) ==
                {c \in DOMAIN fmt.columns :
                    /\ declared[c] = kind
                    /\ is_compatible(kind, fmt.columns[c].unit)}
        IN /\ format_len(fmt) = Cardinality({fmt.defs[i].name : i \in Converted})
           /\ \A c \in DeclaredIncompatible : fmt.columns[c].field_type = NoneStr
           /\ \A kind \in KindQueries :
                LET listed == list_fields_by_type(fmt, kind)
                    columns == ColumnsOfKind(kind)
                IN /\ Elems(listed) = {fmt.columns[c] : c \in columns}
                   /\ Len(listed) = Cardinality(columns)

\* Two columns declared magnetic_field, one in tesla and one in kelvin: both
\* are counted and only the first is listed.
C12_Witness ==
    /\ FormatBuilt
    /\ format_len(fmt) = 2
    /\ Cardinality(DeclaredIncompatible) = 1
    /\ Len(list_fields_by_type(fmt, "magnetic_field")) = 1
    /\ \A kind \in KindQueries \ {"magnetic_field"} : list_fields_by_type(fmt, kind) = <<>>

\* The symbols asked for.
SymbolQueries == {"B", "c1", "c2", "T"}

\* C13: get_field_by_symbol(symbol) returns a built Field that has that
\* symbol if there is one, and None otherwise.
C13_BySymbolOnly ==
    FormatBuilt =>
        \A symbol \in SymbolQueries :
            LET having == {f \in Values(fmt.columns) : f.symbol = symbol}
                r == get_field_by_symbol(fmt, symbol)
            IN IF having # {} THEN r \in having ELSE r = None

\* C14: after construction the column map and the registry's primary map
\* have the same keys and the same Field under each key, so get_field(c) and
\* registry.get(c) agree for every column name, present or not.
C14_ColumnsMirrorRegistry ==
    FormatBuilt =>
        /\ DOMAIN fmt.columns = DOMAIN fmt.registry.fields
        /\ \A c \in DOMAIN fmt.columns : fmt.columns[c] = fmt.registry.fields[c]
        /\ \A c \in DOMAIN fmt.columns : fmt.columns[c].name = c
        /\ \A c \in DOMAIN fmt.columns : get_field(fmt, c) = get(fmt.registry, c)

\* Two definitions of one column name, both converted, the second with
\* another symbol: the later Field is the one both maps hold.
C14_Witness ==
    /\ FormatBuilt
    /\ Converted = {1, 2}
    /\ fmt.defs[1].name = fmt.defs[2].name
    /\ to_field(fmt.defs[1]).field # to_field(fmt.defs[2]).field
    /\ get_field(fmt, fmt.defs[1].name) = to_field(fmt.defs[2]).field
    /\ get(fmt.registry, fmt.defs[1].name) = to_field(fmt.defs[2]).field

(***************************************************************************)
(* FieldRegistry.list_fields (registry.py)                                 *)
(***************************************************************************)
\* The fields given to the registry when it is listed by category: a Field
\* whose metadata holds "category" carries it as category, one whose
\* metadata does not carries NoneStr (what metadata.get("category") gives).
Categories == {"em", "th"}
CategoryPool ==
    [name : {"a", "b"}, symbol : {"s"}, aliases : {<<>>},
     category : Categories \cup {NoneStr}]

\* The category arguments of list_fields: the categories in use, one no field
\* has, the empty string and None.
CategoryQueries == Categories \cup {"xx", "", NoneStr}

\* The keys of a dict in insertion order, from the registrations that filled
\* it: a key keeps the place of its first insertion.
RECURSIVE KeysInOrder(_)
KeysInOrder(h) ==
    IF h = <<>> THEN <<>>
    ELSE LET front == KeysInOrder(SubSeq(h, 1, Len(h) - 1))
             key == h[Len(h)].name
         IN IF key \in Elems(front) THEN front ELSE Append(front, key)

\* A list_fields that ignores its category argument.
list_fields_unfiltered(R, keys, category) == [i \in 1..Len(keys) |-> R.fields[keys[i]]]

\* FieldRegistry.list_fields; keys is the insertion order of R.fields.
list_fields(R, keys, category) ==
    LET all == [i \in 1..Len(keys) |-> R.fields[keys[i]]]
        InCategory(f) == f.category = category
    IN IF category # NoneStr /\ category # ""
       THEN SelectSeq(all, InCategory)
       ELSE all

\* registry.list_fields(category) on the registry of the state.
ListFields(category) == list_fields(Reg, KeysInOrder(history), category)

ListNext ==
    \/ \E field \in CategoryPool : Register(field)
    \/ \E field_name \in {"a", "b"} : Remove(field_name)

ListSpec == Init /\ [][ListNext]_vars

\* list_fields(category) lists, once each, exactly the registered fields
\* whose category is the one asked for.
ListsCategory(category) ==
    LET of_category == {f \in Values(fields) : f.category = category}
    IN /\ Elems(ListFields(category)) = of_category
       /\ Len(ListFields(category)) = Cardinality(of_category)

\* list_fields() lists every field of the primary map exactly once.
ListsAll(category) ==
    /\ Elems(ListFields(category)) = Values(fields)
    /\ Len(ListFields(category)) = Cardinality(DOMAIN fields)

\* C17: after any sequence of register and remove calls, list_fields()
\* returns every field of the primary map exactly once, and
\* list_fields(category) returns exactly the registered fields of that
\* category, an empty list when there is none, for every str category.
C17_ListFields ==
    /\ ListsAll(NoneStr)
    /\ \A category \in CategoryQueries \ {NoneStr} : ListsCategory(category)

\* C17 as amended: the same for every non-empty category; for the empty
\* string, as for None, list_fields returns every field.
C17_ListFieldsNonEmptyCategory ==
    /\ ListsAll(NoneStr)
    /\ ListsAll("")
    /\ \A category \in CategoryQueries \ {NoneStr, ""} : ListsCategory(category)

\* C17 witness: after an overwrite and a removal, one field of category "em"
\* and one without category are registered and listed.
C17_Witness ==
    /\ nops >= 4
    /\ Len(history) = 3
    /\ Cardinality(DOMAIN fields) = 2
    /\ Len(ListFields(NoneStr)) = 2
    /\ Len(ListFields("em")) = 1
    /\ ListFields("th") = <<>>

(***************************************************************************)
(* The raise-on-duplicate FieldRegistry                                    *)
(* (prompts/example_registry_implementation.py)                            *)
(***************************************************************************)
\* A registry value of this variant: its four dicts.
ExampleRegistry(f, s, a, c) ==
    [fields |-> f, by_symbol |-> s, by_alias |-> a, by_category |-> c]

\* FieldRegistry.__init__
NewExampleRegistry == ExampleRegistry(EmptyDict, EmptyDict, EmptyDict, EmptyDict)

\* The outcome of a call: the registry afterwards, the returned bool (FALSE
\* for a method that returns None) and whether ValueError was raised.
Outcome(X, result, raised) == [reg |-> X, result |-> result, raised |-> raised]

\* register, lines 72-77: the category index, filled only for a truthy category
AppendCategory(buckets, field) ==
    LET category == field.category
        bucket == IF category \in DOMAIN buckets THEN buckets[category] ELSE <<>>
    IN IF category # NoneStr /\ category # ""
       THEN Put(buckets, category, Append(bucket, field))
       ELSE buckets

\* A register of this variant that overwrites a registered name.
example_register_overwrite(X, field) ==
    Outcome(ExampleRegistry(Put(X.fields, field.name, field),
                            Put(X.by_symbol, field.symbol, field),
                            AppendAliases(X.by_alias, field.aliases, field),
                            AppendCategory(X.by_category, field)),
            FALSE, FALSE)

\* FieldRegistry.register of this variant
example_register(X, field) ==
    IF field.name \in DOMAIN X.fields
    THEN Outcome(X, FALSE, TRUE)
    ELSE Outcome(ExampleRegistry(Put(X.fields, field.name, field),
                                 Put(X.by_symbol, field.symbol, field),
                                 AppendAliases(X.by_alias, field.aliases, field),
                                 AppendCategory(X.by_category, field)),
                 FALSE, FALSE)

\* FieldRegistry.bulk_register of this variant: a ValueError of register is
\* caught, printed and the loop goes on.
RECURSIVE example_bulk_register(_, _)
example_bulk_register(X, fs) ==
    IF fs = <<>> THEN Outcome(X, FALSE, FALSE)
    ELSE example_bulk_register(example_register(X, Head(fs)).reg, Tail(fs))

\* FieldRegistry.get of this variant
example_get(X, identifier) ==
    IF identifier \in DOMAIN X.fields THEN X.fields[identifier]
    ELSE IF identifier \in DOMAIN X.by_symbol THEN X.by_symbol[identifier]
    ELSE IF identifier \in DOMAIN X.by_alias /\ Len(X.by_alias[identifier]) = 1
         THEN X.by_alias[identifier][1]
    ELSE None

\* list(d.values()) for a dict whose insertion order is not recorded: the
\* values in some order, each key once.
RECURSIVE ValueList(_, _)
ValueList(d, keys) ==
    IF keys = {} THEN <<>>
    ELSE LET k == CHOOSE x \in keys : TRUE
         IN <<d[k]>> \o ValueList(d, keys \ {k})

\* FieldRegistry.list_fields of this variant, without predicate
example_list_fields(X, category) ==
    IF category # NoneStr /\ category # ""
    THEN IF category \in DOMAIN X.by_category THEN X.by_category[category] ELSE <<>>
    ELSE ValueList(X.fields, DOMAIN X.fields)

\* FieldRegistry.__len__ of this variant
example_len(X) == Cardinality(DOMAIN X.fields)

\* list.remove(x): without the first element equal to x
RemoveFirst(bucket, x) ==
    LET i == CHOOSE j \in 1..Len(bucket) :
                 bucket[j] = x /\ \A k \in 1..(j - 1) : bucket[k] # x
    IN SubSeq(bucket, 1, i - 1) \o SubSeq(bucket, i + 1, Len(bucket))

\* unregister, lines 228-233 and 235-239: take field out of the bucket of a
\* key and drop a bucket left empty; list.remove raises ValueError when the
\* bucket does not hold the field.
Unbucket(buckets, key, field) ==
    IF key \notin DOMAIN buckets THEN [buckets |-> buckets, raised |-> FALSE]
    ELSE IF field \notin Elems(buckets[key]) THEN [buckets |-> buckets, raised |-> TRUE]
    ELSE LET kept == RemoveFirst(buckets[key], field)
         IN [buckets |-> IF kept = <<>> THEN Del(buckets, key)
                         ELSE Put(buckets, key, kept),
             raised |-> FALSE]

RECURSIVE UnbucketAliases(_, _, _)
UnbucketAliases(buckets, aliases, field) ==
    IF aliases = <<>> THEN [buckets |-> buckets, raised |-> FALSE]
    ELSE LET r == Unbucket(buckets, Head(aliases), field)
         IN IF r.raised THEN r
            ELSE UnbucketAliases(r.buckets, Tail(aliases), field)

\* FieldRegistry.unregister
unregister(X, name) ==
    IF name \notin DOMAIN X.fields THEN Outcome(X, FALSE, FALSE)
    ELSE LET field == X.fields[name]
             a == UnbucketAliases(X.by_alias, field.aliases, field)
             c == IF field.category # NoneStr /\ field.category # ""
                  THEN Unbucket(X.by_category, field.category, field)
                  ELSE [buckets |-> X.by_category, raised |-> FALSE]
         IN IF a.raised
            THEN Outcome(ExampleRegistry(Del(X.fields, name),
                                         Del(X.by_symbol, field.symbol),
                                         a.buckets, X.by_category),
                         FALSE, TRUE)
            ELSE Outcome(ExampleRegistry(Del(X.fields, name),
                                         Del(X.by_symbol, field.symbol),
                                         a.buckets, c.buckets),
                         ~c.raised, c.raised)

\* A clear that empties the primary map only.
clear_primary_only(X) ==
    Outcome(ExampleRegistry(EmptyDict, X.by_symbol, X.by_alias, X.by_category),
            FALSE, FALSE)

\* FieldRegistry.clear
clear(X) == Outcome(NewExampleRegistry, FALSE, FALSE)

(***************************************************************************)
(* The raise-on-duplicate registry as a state machine                      *)
(***************************************************************************)
\* The registry of this variant held in the state variables.
ExampleReg == ExampleRegistry(fields, by_symbol, by_alias, by_category)

\* The fields given to it: two names, each with or without alias and
\* category, two of the three kinds sharing a symbol.
ExampleVariants == {<<"s", <<>>, NoneStr>>, <<"t", <<"k">>, "em">>, <<"s", <<"k">>, "em">>}
ExamplePool ==
    {[name |-> n, symbol |-> v[1], aliases |-> v[2], category |-> v[3]] :
        n \in {"a", "b"}, v \in ExampleVariants}
ExampleBulkLists == {<<f, g>> : f, g \in ExamplePool}
ExampleIdentifiers == {"a", "b", "s", "t", "k"}

\* A call of this variant: its arguments, what it returned, whether it
\* raised ValueError, and len(registry) before it.
ExampleCall(op, name, field, batch, o) ==
    [op |-> op, name |-> name, field |-> field, batch |-> batch,
     val |-> o.result, raised |-> o.raised, before |-> example_len(ExampleReg)]

\* The registry after the call is the registry of the outcome.
Becomes(o) ==
    /\ fields' = o.reg.fields
    /\ by_symbol' = o.reg.by_symbol
    /\ by_alias' = o.reg.by_alias
    /\ by_category' = o.reg.by_category

ExampleRegister(field) ==
    /\ nops < MaxOps
    /\ LET o == example_register(ExampleReg, field)
       IN /\ Becomes(o)
          /\ ret' = ExampleCall("register", field.name, field, <<>>, o)
    /\ nops' = nops + 1
    /\ UNCHANGED <<history, made, fmt, ureg, heap>>

ExampleBulkRegister(fs) ==
    /\ nops + Len(fs) <= MaxOps
    /\ LET o == example_bulk_register(ExampleReg, fs)
       IN /\ Becomes(o)
          /\ ret' = ExampleCall("bulk_register", "", None, fs, o)
    /\ nops' = nops + Len(fs)
    /\ UNCHANGED <<history, made, fmt, ureg, heap>>

Unregister(name) ==
    /\ nops < MaxOps
    /\ LET o == unregister(ExampleReg, name)
       IN /\ Becomes(o)
          /\ ret' = ExampleCall("unregister", name, None, <<>>, o)
    /\ nops' = nops + 1
    /\ UNCHANGED <<history, made, fmt, ureg, heap>>

Clear ==
    /\ nops < MaxOps
    /\ LET o == clear(ExampleReg)
       IN /\ Becomes(o)
          /\ ret' = ExampleCall("clear", "", None, <<>>, o)
    /\ nops' = nops + 1
    /\ UNCHANGED <<history, made, fmt, ureg, heap>>

ExampleNext ==
    \/ \E field \in ExamplePool : ExampleRegister(field)
    \/ \E fs \in ExampleBulkLists : ExampleBulkRegister(fs)
    \/ \E name \in {"a", "b"} : Unregister(name)
    \/ Clear

ExampleSpec == Init /\ [][ExampleNext]_vars

(***************************************************************************)
(* Properties of the raise-on-duplicate registry                           *)
(***************************************************************************)
\* The first field of a batch that has the name of its i-th field.
FirstOfName(batch, i) ==
    batch[CHOOSE j \in 1..i :
              /\ batch[j].name = batch[i].name
              /\ \A k \in 1..(j - 1) : batch[k].name # batch[i].name]

\* C19: register(field) with a registered name raises ValueError and leaves
\* the four indices as they were; bulk_register does not raise, skips the
\* fields of the batch whose name is taken and registers every other field
\* of the batch, before or after a skipped one.
C19_DuplicateRaisesNoRollback ==
    [][/\ ret'.op = "register" =>
            IF ret'.name \in DOMAIN fields
            THEN /\ ret'.raised
                 /\ UNCHANGED <<fields, by_symbol, by_alias, by_category>>
            ELSE /\ ~ret'.raised
                 /\ fields' = Put(fields, ret'.name, ret'.field)
       /\ ret'.op = "bulk_register" =>
            /\ ~ret'.raised
            /\ DOMAIN fields' =
                  DOMAIN fields \cup {ret'.batch[i].name : i \in 1..Len(ret'.batch)}
            /\ \A i \in 1..Len(ret'.batch) :
                  LET name == ret'.batch[i].name
                  IN IF name \in DOMAIN fields
                     THEN fields'[name] = fields[name]
                     ELSE /\ fields'[name] = FirstOfName(ret'.batch, i)
                          /\ example_get(ExampleRegistry(fields', by_symbol',
                                                         by_alias', by_category'),
                                         name) = FirstOfName(ret'.batch, i)]_vars

\* C19 witness: with "a" registered, bulk_register([a2, b]) has skipped the
\* duplicate a2 and registered b after it.
C19_Witness ==
    /\ ret.op = "bulk_register"
    /\ ret.before = 1
    /\ ret.batch[1].name = "a" /\ ret.batch[2].name = "b"
    /\ fields["a"] # ret.batch[1]
    /\ fields["b"] = ret.batch[2]

\* C20: after clear() the primary map and the symbol, alias and category
\* indices are all empty: len(registry) is 0, get(id) is None for every
\* identifier and list_fields(category) is empty for every category.
C20_ClearEmptiesAll ==
    ret.op = "clear" =>
        /\ example_len(ExampleReg) = 0
        /\ \A id \in ExampleIdentifiers : example_get(ExampleReg, id) = None
        /\ \A category \in CategoryQueries :
              example_list_fields(ExampleReg, category) = <<>>
        /\ fields = EmptyDict /\ by_symbol = EmptyDict
        /\ by_alias = EmptyDict /\ by_category = EmptyDict

\* C20 witness: clear() has run on a registry of two fields.
C20_Witness ==
    /\ ret.op = "clear"
    /\ ret.before = 2
    /\ example_len(ExampleReg) = 0

(***************************************************************************)
(* Properties of the registry's derived indices                            *)
(***************************************************************************)
\* The fields held in the symbol index or in an alias bucket.
Indexed ==
    Values(by_symbol) \cup UNION {Elems(by_alias[a]) : a \in DOMAIN by_alias}

\* C23: every Field held in the symbol index or in an alias bucket is the
\* Field stored in the primary map under its name, so get never returns a
\* field that list_fields() does not contain.
C23_IndicesHoldRegisteredFields ==
    /\ \A f \in Indexed : f.name \in DOMAIN fields /\ fields[f.name] = f
    /\ \A id \in Identifiers :
          get(Reg, id) # None => get(Reg, id) \in Values(fields)

\* C24: registering the Field that was registered by the step before leaves
\* every get(identifier) as it was after the first registration.
C24_RegisterTwiceSameLookups ==
    [][(ret.op = "register" /\ ret'.op = "register" /\ ret'.field = ret.field) =>
         \A id \in Identifiers : get(Reg', id) = get(Reg, id)]_vars

\* How often x occurs in a sequence.
Count(seq, x) == Cardinality({i \in 1..Len(seq) : seq[i] = x})

\* C25: each alias of a field f of the primary map holds f in its bucket
\* as many times as f was registered since the last remove of its name, and
\* no alias bucket is empty.
C25_BucketCountsRegistrations ==
    /\ \A n \in DOMAIN fields :
          \A a \in Elems(fields[n].aliases) :
              /\ a \in DOMAIN by_alias
              /\ Count(by_alias[a], fields[n]) = Count(history, fields[n])
    /\ \A a \in DOMAIN by_alias : by_alias[a] # <<>>

\* The registries on which register(f), remove(f.name) is a round trip: the
\* name is not registered, the symbol has no entry, no alias has a bucket.
Fresh(R, f) ==
    /\ f.name \notin DOMAIN R.fields
    /\ f.symbol \notin DOMAIN R.by_symbol
    /\ \A a \in Elems(f.aliases) : a \notin DOMAIN R.by_alias

\* C26: on a registry where f is fresh, register(f) followed by
\* remove(f.name) returns True and gives back the primary map, the symbol
\* index and the alias index as they were.
C26_RegisterRemoveRestores ==
    \A f \in FieldPool :
        Fresh(Reg, f) =>
            LET r == remove(register(Reg, f), f.name)
            IN r.result /\ r.field = f /\ r.reg = Reg

\* C26 witness: with a field of another name and symbol registered, a field
\* with two aliases was registered and removed, and the registry is as before.
C26_Witness ==
    /\ nops = 3
    /\ ret.op = "remove" /\ ret.val
    /\ ret.field.aliases = <<"a", "k">>
    /\ history = <<[name |-> "c", symbol |-> "a", aliases |-> <<>>]>>
    /\ Reg = register(NewRegistry, [name |-> "c", symbol |-> "a", aliases |-> <<>>])
    /\ Fresh(Reg, ret.field)

(***************************************************************************)
(* Properties of normalize_unit                                            *)
(***************************************************************************)
\* C30: normalize_unit returns the table value for every key of the alias
\* table and every other string unchanged, and applying it to its own
\* result changes nothing.
C30_NormalizeIdempotent ==
    made.op = "normalize_unit" =>
        /\ made.unit.v \in DOMAIN UNIT_ALIASES => made.result = UNIT_ALIASES[made.unit.v]
        /\ made.unit.v \notin DOMAIN UNIT_ALIASES => made.result = made.unit.v
        /\ made.again = made.result

\* C30 witness: normalize_unit("celsius") gave "degC", which is no key of
\* the table and is returned as it is.
C30_Witness ==
    /\ made.op = "normalize_unit"
    /\ made.unit = Str("celsius")
    /\ made.result = "degC"
    /\ "degC" \notin DOMAIN UNIT_ALIASES
    /\ made.again = "degC"

(***************************************************************************)
(* The query operations of Field (field.py)                                *)
(***************************************************************************)
\* A value handed to a Field: a number, or an object that is none (None, a
\* dict), for which ureg.Quantity raises.
Num(n) == [kind |-> "num", v |-> n]
NotANumber == [kind |-> "object", v |-> 0]

\* The size of a unit in the base unit of its dimension, as <<numerator,
\* denominator>>, for the units without offset that the queries use.
PintFactor ==
    ("tesla" :> <<1, 1>>) @@ ("millitesla" :> <<1, 1000>>) @@
    ("Gauss" :> <<1, 10000>>) @@ ("meter" :> <<1, 1>>) @@
    ("millimeter" :> <<1, 1000>>)

\* The abbreviated pretty rendering of a unit, f"{unit:~P}".
PintAbbreviation ==
    ("tesla" :> "T") @@ ("millitesla" :> "mT") @@ ("Gauss" :> "G") @@
    ("meter" :> "m") @@ ("millimeter" :> "mm")

RECURSIVE GCD(_, _)
GCD(a, b) == IF b = 0 THEN a ELSE GCD(b, a % b)

\* A magnitude, kept exact as a fraction in lowest terms.
Fraction(num, den) ==
    LET g == GCD(IF num < 0 THEN -num ELSE num, den)
    IN [num |-> num \div g, den |-> den \div g]

\* ureg.Quantity(n, u).to(v).magnitude, for units of one dimension
Magnitude(n, u, v) ==
    Fraction(n * PintFactor[u.v][1] * PintFactor[v.v][2],
             PintFactor[u.v][2] * PintFactor[v.v][1])

\* What a method call gives: the object it was called on as the call leaves
\* it and the value returned, or that object and the exception raised.
Returned(self, result) == [self |-> self, result |-> result, raised |-> NoneStr]
Threw(self, error) == [self |-> self, raised |-> error]

\* A convert that keeps the target unit as the field's unit.
convert_rebind(self, value, to_unit) ==
    IF value.kind # "num" THEN Threw(self, "TypeError")
    ELSE LET v == IF isinstance_str(to_unit) THEN ParseUnit(to_unit.v) ELSE to_unit
         IN IF v = Undefined THEN Threw(self, "UndefinedUnitError")
            ELSE IF ~Converts(self.unit, v) THEN Threw(self, "DimensionalityError")
            ELSE Returned([self EXCEPT !.unit = v], Magnitude(value.v, self.unit, v))

\* Field.convert
convert(self, value, to_unit) ==
    IF value.kind # "num" THEN Threw(self, "TypeError")
    ELSE LET v == IF isinstance_str(to_unit) THEN ParseUnit(to_unit.v) ELSE to_unit
         IN IF v = Undefined THEN Threw(self, "UndefinedUnitError")
            ELSE IF ~Converts(self.unit, v) THEN Threw(self, "DimensionalityError")
            ELSE Returned(self, Magnitude(value.v, self.unit, v))

\* A comprehension that leaves out the elements whose conversion raises.
RECURSIVE SkipComprehension(_, _, _, _)
SkipComprehension(self, values, to_unit, done) ==
    IF values = <<>> THEN Returned(self, done)
    ELSE LET c == convert(self, Head(values), to_unit)
         IN SkipComprehension(c.self, Tail(values), to_unit,
                              IF c.raised # NoneStr THEN done
                              ELSE Append(done, c.result))

convert_array_skip(self, values, to_unit) ==
    SkipComprehension(self, values, to_unit, <<>>)

\* [self.convert(v, to_unit) for v in values]: the elements in order, the
\* list built so far dropped when one conversion raises.
RECURSIVE Comprehension(_, _, _, _)
Comprehension(self, values, to_unit, done) ==
    IF values = <<>> THEN Returned(self, done)
    ELSE LET c == convert(self, Head(values), to_unit)
         IN IF c.raised # NoneStr THEN Threw(c.self, c.raised)
            ELSE Comprehension(c.self, Tail(values), to_unit,
                               Append(done, c.result))

\* Field.convert_array
convert_array(self, values, to_unit) ==
    Comprehension(self, values, to_unit, <<>>)

\* Field.validate_value: the TypeError or ValueError of ureg.Quantity is
\* caught.
validate_value(self, value) == Returned(self, value.kind = "num")

\* A format_label that always takes the plain symbol.
format_label_plain(self, target_unit, use_latex) ==
    LET sym == self.symbol
    IN IF target_unit # NoneUnit /\ target_unit # Str("")
       THEN LET unit_obj == IF isinstance_str(target_unit)
                            THEN ParseUnit(target_unit.v) ELSE target_unit
            IN IF unit_obj = Undefined THEN Threw(self, "UndefinedUnitError")
               ELSE Returned(self, sym \o " [" \o PintAbbreviation[unit_obj.v] \o "]")
       ELSE Returned(self, sym)

\* Field.format_label; None and the empty string are the falsy targets.
format_label(self, target_unit, use_latex) ==
    LET sym == IF use_latex THEN self.latex_symbol ELSE self.symbol
    IN IF target_unit # NoneUnit /\ target_unit # Str("")
       THEN LET unit_obj == IF isinstance_str(target_unit)
                            THEN ParseUnit(target_unit.v) ELSE target_unit
            IN IF unit_obj = Undefined THEN Threw(self, "UndefinedUnitError")
               ELSE Returned(self, sym \o " [" \o PintAbbreviation[unit_obj.v] \o "]")
       ELSE Returned(self, sym)

\* Field.applies_to_region
applies_to_region(self, region) ==
    Returned(self, region \notin Elems(self.exclude_regions))

(***************************************************************************)
(* Queries as a state machine                                              *)
(***************************************************************************)
\* Longest list handed to convert_array.
MaxValues == 3

\* Field(name="x", symbol=..., unit=..., latex_symbol=..., exclude_regions=...)
QueryField(symbol, unit, latex, exclude_regions) ==
    NewField("x", symbol, unit, NoneStr, latex, <<>>).field
        @@ [exclude_regions |-> exclude_regions]

QueryUnits == {Str("tesla"), Str("millitesla"), Str("millimeter")}

\* The lists handed to convert_array, of two numbers and a non-number.
ValueLists ==
    UNION {[1..n -> {Num(1), Num(-3), NotANumber}] : n \in 0..MaxValues}

\* The calls that have not run yet: the Field, the latex_symbol it was built
\* with, and the arguments. Values are converted by fields of every unit, to
\* units that convert, units of another dimension and an undefined one;
\* labels and regions are asked of fields of every symbol, LaTeX symbol and
\* list of excluded regions.
QueryCalls ==
    {[op |-> "values", self |-> QueryField("B", u, NoneStr, <<"vacuum">>),
      latex |-> NoneStr, values |-> vs, to_unit |-> t] :
        u \in QueryUnits, vs \in ValueLists,
        t \in {Str("millitesla"), Str("Gauss"), Str("T"), Str("meter"),
               Str("not_a_unit"), Unit("tesla")}}
    \cup
    UNION {
        {[op |-> "label", self |-> QueryField(s, u, l, er), latex |-> l,
          target_unit |-> t, use_latex |-> b] :
            t \in {NoneUnit, Str(""), Str("tesla"), Str("millitesla"),
                   Str("millimeter"), Str("not_a_unit"), Unit("tesla")},
            b \in BOOLEAN}
        \cup
        {[op |-> "region", self |-> QueryField(s, u, l, er), latex |-> l,
          region |-> r] : r \in {"air", "vacuum", ""}}
        : s \in {"B", ""}, u \in QueryUnits, l \in {NoneStr, "$B$"},
          er \in {<<>>, <<"vacuum">>, <<"air", "vacuum">>}}

\* No Field is queried: the registry is read instead.
NoQuery == [op |-> "none"]

\* A call that has run: the call and its outcome.
Queried(op, out) == [op |-> op, call |-> made, out |-> out]

\* field.convert(value, to_unit)
Convert ==
    /\ made.op = "values" /\ Len(made.values) = 1
    /\ made' = Queried("convert", convert(made.self, made.values[1], made.to_unit))
    /\ UNCHANGED <<regvars, othervars>>

\* field.convert_array(values, to_unit)
ConvertArray ==
    /\ made.op = "values"
    /\ made' = Queried("convert_array",
                       convert_array(made.self, made.values, made.to_unit))
    /\ UNCHANGED <<regvars, othervars>>

\* field.validate_value(value)
ValidateValue ==
    /\ made.op = "values" /\ Len(made.values) = 1
    /\ made' = Queried("validate_value", validate_value(made.self, made.values[1]))
    /\ UNCHANGED <<regvars, othervars>>

\* field.format_label(target_unit, use_latex)
FormatLabel ==
    /\ made.op = "label"
    /\ made' = Queried("format_label",
                       format_label(made.self, made.target_unit, made.use_latex))
    /\ UNCHANGED <<regvars, othervars>>

\* field.applies_to_region(region)
AppliesToRegion ==
    /\ made.op = "region"
    /\ made' = Queried("applies_to_region",
                       applies_to_region(made.self, made.region))
    /\ UNCHANGED <<regvars, othervars>>

\* The fields given to the registry that is read: two names, one symbol and
\* one alias shared by all, with and without a category.
ReadPool ==
    [name : {"a", "b"}, symbol : {"s"}, aliases : {<<"k">>},
     category : {"em", NoneStr}]
ReadIdentifiers == {"a", "b", "s", "k", "zz"}

\* registry.register(field), on the registry that is read
ReadRegister(field) ==
    /\ made = NoQuery
    /\ Register(field)

\* A get that remembers the identifier it resolved in the symbol index.
Get_caching(identifier) ==
    /\ made = NoQuery
    /\ ret' = Call("get", identifier, get(Reg, identifier), FALSE)
    /\ by_symbol' = IF get(Reg, identifier) # None
                    THEN Put(by_symbol, identifier, get(Reg, identifier))
                    ELSE by_symbol
    /\ UNCHANGED <<fields, by_alias, history, nops, made, othervars>>

\* registry.get(identifier)
Get(identifier) ==
    /\ made = NoQuery
    /\ ret' = Call("get", identifier, get(Reg, identifier), FALSE)
    /\ UNCHANGED <<fields, by_symbol, by_alias, history, nops, made, othervars>>

\* registry.has_field(identifier)
HasField(identifier) ==
    /\ made = NoQuery
    /\ ret' = Call("has_field", identifier, None, has_field(Reg, identifier))
    /\ UNCHANGED <<fields, by_symbol, by_alias, history, nops, made, othervars>>

\* identifier in registry
Contains(identifier) ==
    /\ made = NoQuery
    /\ ret' = Call("contains", identifier, None, has_field(Reg, identifier))
    /\ UNCHANGED <<fields, by_symbol, by_alias, history, nops, made, othervars>>

\* registry.list_fields(category)
ListFieldsRead(category) ==
    /\ made = NoQuery
    /\ ret' = Call("list_fields", category, None, ListFields(category))
    /\ UNCHANGED <<fields, by_symbol, by_alias, history, nops, made, othervars>>

\* len(registry)
LenRead ==
    /\ made = NoQuery
    /\ ret' = Call("len", "", None, len(Reg))
    /\ UNCHANGED <<fields, by_symbol, by_alias, history, nops, made, othervars>>

QueryInit ==
    /\ fields = NewRegistry.fields
    /\ by_symbol = NewRegistry.by_symbol
    /\ by_alias = NewRegistry.by_alias
    /\ ret = Call("init", "", None, FALSE)
    /\ history = <<>>
    /\ nops = 0
    /\ made \in QueryCalls \cup {NoQuery}
    /\ fmt = NoFormat
    /\ ureg = Imported
    /\ by_category = EmptyDict
    /\ heap = ModuleRegistries

QueryNext ==
    \/ Convert
    \/ ConvertArray
    \/ ValidateValue
    \/ FormatLabel
    \/ AppliesToRegion
    \/ \E field \in ReadPool : ReadRegister(field)
    \/ \E identifier \in ReadIdentifiers : Get(identifier)
    \/ \E identifier \in ReadIdentifiers : HasField(identifier)
    \/ \E identifier \in ReadIdentifiers : Contains(identifier)
    \/ \E category \in {"em", "", NoneStr} : ListFieldsRead(category)
    \/ LenRead

QuerySpec == QueryInit /\ [][QueryNext]_vars

(***************************************************************************)
(* Properties of the query operations                                      *)
(***************************************************************************)
\* convert of each element of the list of the call, in place.
EachConverted ==
    [i \in 1..Len(made.call.values) |->
        convert(made.call.self, made.call.values[i], made.call.to_unit)]

\* C21: convert_array(values, to_unit) returns a list as long as values
\* whose i-th element is convert(values[i], to_unit), the empty list for
\* empty input, and raises, returning no list at all, when the conversion
\* of some element raises.
C21_ConvertArrayElementwise ==
    made.op = "convert_array" =>
        IF \E i \in 1..Len(made.call.values) : EachConverted[i].raised # NoneStr
        THEN /\ made.out.raised # NoneStr
             /\ "result" \notin DOMAIN made.out
        ELSE /\ made.out.raised = NoneStr
             /\ Len(made.out.result) = Len(made.call.values)
             /\ \A i \in 1..Len(made.call.values) :
                    made.out.result[i] = EachConverted[i].result
             /\ (made.call.values = <<>> => made.out.result = <<>>)

\* C21 witness: a list whose first two elements convert (1 T is 1000 mT)
\* and whose last does not was handed to convert_array, which raised.
C21_Witness ==
    /\ made.op = "convert_array"
    /\ made.call.values = <<Num(1), Num(-3), NotANumber>>
    /\ made.call.self.unit = Unit("tesla")
    /\ made.call.to_unit = Str("millitesla")
    /\ EachConverted[1].result = [num |-> 1000, den |-> 1]
    /\ EachConverted[2].result = [num |-> -3000, den |-> 1]
    /\ made.out.raised = "TypeError"

\* C22: format_label with target_unit None or empty returns exactly symbol
\* when use_latex is false and exactly latex_symbol when it is true, which
\* is symbol for a Field built without latex_symbol; with a target unit it
\* returns that symbol, one space and the unit's rendering in square
\* brackets.
C22_FormatLabel ==
    made.op = "format_label" =>
        LET self == made.call.self
            sym == IF made.call.use_latex THEN self.latex_symbol ELSE self.symbol
            target == made.call.target_unit
            unit_obj == IF isinstance_str(target) THEN ParseUnit(target.v) ELSE target
        IN /\ (made.call.latex = NoneStr => sym = self.symbol)
           /\ (made.call.latex # NoneStr /\ made.call.use_latex =>
                   sym = made.call.latex)
           /\ (target \in {NoneUnit, Str("")} =>
                   made.out.raised = NoneStr /\ made.out.result = sym)
           /\ (target \notin {NoneUnit, Str("")} /\ unit_obj # Undefined =>
                   /\ made.out.raised = NoneStr
                   /\ made.out.result =
                          sym \o " " \o "[" \o PintAbbreviation[unit_obj.v] \o "]")

\* C22 witness: a Field built with the LaTeX symbol $B$ was labelled in
\* millitesla with use_latex.
C22_Witness ==
    /\ made.op = "format_label"
    /\ made.call.latex = "$B$"
    /\ made.call.use_latex
    /\ made.call.target_unit = Str("millitesla")
    /\ made.out.result = "$B$ [mT]"

\* The operations that only read.
FieldQueries ==
    {"convert", "convert_array", "validate_value", "applies_to_region",
     "format_label"}
RegistryReads == {"get", "has_field", "contains", "list_fields", "len"}

\* C29: convert, convert_array, validate_value, applies_to_region and
\* format_label leave every attribute of the Field they are called on as it
\* was, whether they return or raise, and get, has_field, list_fields, len
\* and containment leave the three indices of the registry as they were.
C29_QueriesChangeNothing ==
    [][/\ made'.op \in FieldQueries /\ made.op \notin FieldQueries =>
              made'.out.self = made.self
       /\ ret'.op \in RegistryReads =>
              UNCHANGED <<fields, by_symbol, by_alias>>]_vars

\* C29 witness: get of an alias two registered fields share answered None,
\* on a registry whose indices hold both fields.
C29_Witness ==
    /\ ret.op = "get"
    /\ ret.name = "k"
    /\ ret.field = None
    /\ Cardinality(DOMAIN fields) = 2
    /\ "k" \in DOMAIN by_alias
    /\ Len(by_alias["k"]) = 2

(***************************************************************************)
(* FormatDefinition.to_dict and from_dict (format_definition.py)           *)
(***************************************************************************)
\* data.get(key, default) on a dict
DictGet(data, key, default) == IF key \in DOMAIN data THEN data[key] ELSE default

\* FormatMetadata(...), a dataclass
FormatMetadata(description, file_extension, delimiter, header_row, encoding, skip_rows, comment_char) ==
    [description |-> description, file_extension |-> file_extension,
     delimiter |-> delimiter, header_row |-> header_row, encoding |-> encoding,
     skip_rows |-> skip_rows, comment_char |-> comment_char]

\* FormatMetadata(): every attribute at its default
DefaultMetadata == FormatMetadata("", ".txt", "\t", TRUE, "utf-8", 0, NoneStr)

\* Python's None where a FormatMetadata is expected.
NoneMetadata == [kind |-> "none"]

\* FormatMetadata.from_dict
FormatMetadata_from_dict(data) ==
    FormatMetadata(DictGet(data, "description", ""),
                   DictGet(data, "file_extension", ".txt"),
                   DictGet(data, "delimiter", "\t"),
                   DictGet(data, "header_row", TRUE),
                   DictGet(data, "encoding", "utf-8"),
                   DictGet(data, "skip_rows", 0),
                   DictGet(data, "comment_char", NoneStr))

\* A FieldDefinition with its description and exclude_regions.
FullDefinition(defn, description, exclude_regions) ==
    defn @@ [description |-> description, exclude_regions |-> exclude_regions]

\* FieldDefinition.from_dict
FieldDefinition_from_dict(data) ==
    FullDefinition(FieldDefinition(data["name"],
                                   DictGet(data, "field_type", NoneStr),
                                   DictGet(data, "unit", "dimensionless"),
                                   DictGet(data, "symbol", NoneStr),
                                   DictGet(data, "latex_symbol", NoneStr),
                                   DictGet(data, "aliases", <<>>)),
                   DictGet(data, "description", NoneStr),
                   DictGet(data, "exclude_regions", <<>>))

\* FormatDefinition(format_name, metadata, field_definitions): __init__,
\* with _build_fields
FormatDefinition(format_name, metadata, field_definitions) ==
    _build_fields(NewFormat(field_definitions), field_definitions)
        @@ [format_name |-> format_name,
            metadata |-> IF metadata = NoneMetadata THEN DefaultMetadata
                         ELSE metadata]

\* FormatDefinition.to_dict
to_dict(F) ==
    [format_name |-> F.format_name,
     metadata |->
        [description |-> F.metadata.description,
         file_extension |-> F.metadata.file_extension,
         delimiter |-> F.metadata.delimiter,
         header_row |-> F.metadata.header_row,
         encoding |-> F.metadata.encoding,
         skip_rows |-> F.metadata.skip_rows,
         comment_char |-> F.metadata.comment_char],
     fields |->
        [i \in 1..Len(F.defs) |->
            [name |-> F.defs[i].name,
             field_type |-> F.defs[i].field_type,
             unit |-> F.defs[i].unit,
             symbol |-> F.defs[i].symbol,
             description |-> F.defs[i].description]]]

\* FormatDefinition.from_dict
from_dict(data) ==
    LET format_name == DictGet(data, "format_name", "unknown")
        metadata == FormatMetadata_from_dict(DictGet(data, "metadata", EmptyDict))
        fields_data == DictGet(data, "fields", <<>>)
        field_definitions ==
            [i \in 1..Len(fields_data) |-> FieldDefinition_from_dict(fields_data[i])]
    IN FormatDefinition(format_name, metadata, field_definitions)

\* The metadata a format is built with: none, and one that differs from the
\* default in every attribute.
MetadataArgs ==
    {NoneMetadata, FormatMetadata("log", ".csv", ",", FALSE, "latin-1", 2, "#")}

\* The description and exclude_regions given to the definitions of a format.
DefinitionExtras == {<<NoneStr, <<>>>>, <<"flux", <<"vacuum">>>>}

\* The format built from the definitions of the state, each with the given
\* extras.
FullFormat(metadata, extras) ==
    FormatDefinition("pupitre", metadata,
                     [i \in 1..Len(fmt.defs) |->
                         FullDefinition(fmt.defs[i], extras[1], extras[2])])

\* G is a format equivalent to F: name, metadata, every attribute of every
\* field definition, and the registry's answers.
Equivalent(F, G) ==
    /\ G.format_name = F.format_name
    /\ G.metadata = F.metadata
    /\ G.defs = F.defs
    /\ \A identifier \in ColumnNames \cup SymbolQueries :
           get(G.registry, identifier) = get(F.registry, identifier)

\* C28: FormatDefinition.from_dict(fmt.to_dict()) is equivalent to fmt: the
\* same format_name and metadata, the same name, field_type, unit, symbol,
\* description, latex_symbol, aliases and exclude_regions of every field
\* definition, and a registry that answers get as fmt's registry does.
C28_RoundTrip ==
    FormatBuilt =>
        \A metadata \in MetadataArgs, extras \in DefinitionExtras :
            Equivalent(FullFormat(metadata, extras),
                       from_dict(to_dict(FullFormat(metadata, extras))))

(***************************************************************************)
(* Several FieldRegistry instances as a state machine                      *)
(***************************************************************************)
\* Most instances alive, default_registry included, and most calls made.
MaxInstances == 3
MaxSteps == 5

\* ghost: the call just made and the instance it was made on
Stepped(H, op, i) == [H EXCEPT !.steps = @ + 1, !.last = [op |-> op, inst |-> i]]

\* FieldRegistry(), by a caller or by FormatDefinition.__init__
CreateRegistry(owner) ==
    /\ heap.steps < MaxSteps
    /\ Len(heap.registries) < MaxInstances
    /\ heap' = Stepped(NewInstance(heap, owner), "init", Len(heap.registries) + 1)
    /\ UNCHANGED <<regvars, made, fmt, ureg, by_category>>

\* registries[i].register(field)
InstanceRegister(i, field) ==
    /\ heap.steps < MaxSteps
    /\ heap' = Stepped(Store(heap, i, register(Load(heap, i), field), field),
                       "register", i)
    /\ UNCHANGED <<regvars, made, fmt, ureg, by_category>>

\* registries[i].remove(field_name)
InstanceRemove(i, field_name) ==
    /\ heap.steps < MaxSteps
    /\ LET r == remove(Load(heap, i), field_name)
       IN heap' = Stepped(IF r.result THEN Store(heap, i, r.reg, r.field) ELSE heap,
                          "remove", i)
    /\ UNCHANGED <<regvars, made, fmt, ureg, by_category>>

\* The fields registered: one Field object may go to several instances.
InstancePool == {f \in ReadPool : f.name = "a" \/ f.category = "em"}

InstanceNext ==
    \/ \E owner \in {"caller", "format"} : CreateRegistry(owner)
    \/ \E i \in 1..Len(heap.registries), field \in InstancePool :
           InstanceRegister(i, field)
    \/ \E i \in 1..Len(heap.registries), field_name \in {"a", "b"} :
           InstanceRemove(i, field_name)

InstanceSpec == Init /\ [][InstanceNext]_vars

\* What instance i answers: get for every identifier, list_fields for every
\* category and len.
Answers(H, i) ==
    [get |-> [identifier \in ReadIdentifiers |-> get(Load(H, i), identifier)],
     list_fields |->
        [category \in {"em", NoneStr} |->
            list_fields(Load(H, i), H.dicts[H.registries[i].fields].keys, category)],
     len |-> len(Load(H, i))]

\* C27: FieldRegistry instances (default_registry, the registries callers
\* create and the registry of a FormatDefinition) share no index state: a
\* register or remove on one instance, or the creation of one, leaves what
\* get, list_fields and len answer on every other instance as it was, also
\* when one Field is registered in both.
C27_InstancesShareNothing ==
    [][\A j \in 1..Len(heap.registries) :
          j # heap'.last.inst => Answers(heap', j) = Answers(heap, j)]_vars

\* C27 witness: a Field registered in default_registry and in the registry
\* of a FormatDefinition was removed from the latter and is still answered
\* by the former.
C27_Witness ==
    /\ Len(heap.registries) = 3
    /\ heap.registries[2].owner = "caller"
    /\ heap.registries[3].owner = "format"
    /\ heap.last = [op |-> "remove", inst |-> 3]
    /\ get(Load(heap, 3), "a") = None
    /\ get(Load(heap, 1), "a") \in InstancePool
    /\ len(Load(heap, 1)) = 1
    /\ len(Load(heap, 3)) = 0
    /\ heap.dicts[heap.registries[3].fields].keys = <<>>
    /\ heap.steps = 5

====
